---- MODULE Spec2Model ----
(***************************************************************************)
(* org-pulse: the collection pipeline (scraper.rs, github.rs, db.rs) and   *)
(* the dashboard state machine (app/state.rs, app/events.rs, app/ui.rs).   *)
(*                                                                         *)
(* Strings are sequences of one-character strings, so that Regex::find,    *)
(* format!("{}/{}") and split('/') are computed, not assumed.              *)
(* Times are whole days.  Row ids are positions in the table (SQLite       *)
(* AUTOINCREMENT from 1).                                                  *)
(***************************************************************************)
EXTENDS Integers, Sequences, FiniteSets, TLC

VARIABLES
    \* the SQLite store (db.rs): six tables, each a sequence of rows
    db,
    \* the upstream (GitHub) as the Github client sees it, and the clock
    gh, clock,
    \* config.toml as get_config() loads it
    cfg,
    \* run_scrape (scraper.rs): position and locals of the one invocation
    run,
    \* App (app/state.rs)
    current_view, current_scrape, scrapes, data, sort_order, sort_field,
    selected_index, scrape_selected_index, should_quit, is_scraping,
    scraping_error, pending_view_switch, start_scraping_requested,
    drill_down_requested, navigate_back_requested, view_history,
    \* the render/input loop: its position, the last handler result, and
    \* what the last render drew in the main area, and the number of input
    \* events handled so far
    lp, result, screen, inputs,
    \* history: for each entry of view_history, the data that was shown when
    \* it was pushed (used only to state properties)
    shown,
    \* history: the commits and pull requests recorded so far by the
    \* Aggregator that is fed record by record (used only to state properties)
    fed

dbVars  == <<db, gh, clock, cfg, run, fed>>
appVars == <<current_view, current_scrape, scrapes, data, sort_order, sort_field,
             selected_index, scrape_selected_index, should_quit, is_scraping,
             scraping_error, pending_view_switch, start_scraping_requested,
             drill_down_requested, navigate_back_requested, view_history>>
loopVars == <<lp, result, screen, inputs, shown>>
vars == <<dbVars, appVars, loopVars>>

----------------------------------------------------------------------------
(* Bounds of the model *)

\* at most this many rows in the scrapes table (collection runs)
MaxScrapes == 2

\* at most this many input events (key presses, requests) in a session
MaxInputs == 4

\* at most this many commits and pull requests recorded by one Aggregator
MaxFed == 3

----------------------------------------------------------------------------
(* Strings *)

\* Option<T>: None is <<>>, Some(x) is <<x>>
None == <<>>
Some(x) == <<x>>

\* the characters the model's names use, in ASCII order
Alphabet == <<"/", "A", "B", "a", "b", "c", "l", "m", "n", "o", "r", "s", "t", "u", "y">>

Ord(c) == CHOOSE i \in 1..Len(Alphabet) : Alphabet[i] = c

\* String::cmp = Less: lexicographic on bytes
RECURSIVE StrLess(_, _)
StrLess(a, b) ==
    IF b = <<>> THEN FALSE
    ELSE IF a = <<>> THEN TRUE
    ELSE IF Ord(Head(a)) # Ord(Head(b)) THEN Ord(Head(a)) < Ord(Head(b))
    ELSE StrLess(Tail(a), Tail(b))

\* Regex::find(re, s).is_some() for a pattern of literal characters:
\* the pattern occurs somewhere in s (the empty pattern occurs in every s)
regex_find(pattern, s) ==
    \E i \in 0..Len(s) :
        /\ i + Len(pattern) <= Len(s)
        /\ SubSeq(s, i + 1, i + Len(pattern)) = pattern

\* format!("{}/{}", a, b)
format_slash(a, b) == a \o <<"/">> \o b

\* str::split('/').collect(): the pieces between the separators
RECURSIVE split_slash(_)
split_slash(s) ==
    IF \A i \in 1..Len(s) : s[i] # "/" THEN <<s>>
    ELSE LET k == CHOOSE i \in 1..Len(s) :
                      s[i] = "/" /\ \A j \in 1..(i - 1) : s[j] # "/"
         IN <<SubSeq(s, 1, k - 1)>> \o split_slash(SubSeq(s, k + 1, Len(s)))

ANONYMOUS == <<"a", "n", "o", "n", "y", "m", "o", "u", "s">>

----------------------------------------------------------------------------
(* Generic helpers *)

Range(s) == {s[i] : i \in 1..Len(s)}

RECURSIVE SumOver(_, _)
\* the sum of f[x] over the finite set S (f a function on S)
SumOver(S, f) ==
    IF S = {} THEN 0
    ELSE LET x == CHOOSE y \in S : TRUE IN f[x] + SumOver(S \ {x}, f)

RECURSIVE SeqOfSet(_)
\* the elements of a finite set of integers in increasing order
SeqOfSet(S) ==
    IF S = {} THEN <<>>
    ELSE LET m == CHOOSE x \in S : \A y \in S : x <= y
         IN <<m>> \o SeqOfSet(S \ {m})

\* a sort key: an i64 or a String
IntKey(n) == [kind |-> "int", v |-> n]
StrKey(s) == [kind |-> "str", v |-> s]

\* Ord::cmp(a, b) = Less
KeyLess(a, b) == IF a.kind = "int" THEN a.v < b.v ELSE StrLess(a.v, b.v)

\* a comparator that also answers Less for equal keys
Precedes_or_equal(order, a, b) ==
    IF order = "Ascending" THEN ~KeyLess(b.key, a.key) ELSE ~KeyLess(a.key, b.key)

\* the comparator of the sort_*_static closures: a.cmp(b) when Ascending,
\* b.cmp(a) when Descending, is Less
Precedes(order, a, b) ==
    IF order = "Ascending" THEN KeyLess(a.key, b.key) ELSE KeyLess(b.key, a.key)

RECURSIVE InsertBy(_, _, _)
\* slice::sort_by is stable: x goes before the first element it precedes
InsertBy(order, x, s) ==
    IF s = <<>> THEN <<x>>
    ELSE IF Precedes(order, x, Head(s)) THEN <<x>> \o s
    ELSE <<Head(s)>> \o InsertBy(order, x, Tail(s))

RECURSIVE SortAscending(_)
\* a stable ascending sort of a sequence of [key, row] pairs
SortAscending(s) ==
    IF s = <<>> THEN <<>>
    ELSE InsertBy("Ascending", s[Len(s)], SortAscending(SubSeq(s, 1, Len(s) - 1)))

\* a sort that obtains the Descending order by sorting the reversed input
\* ascending and reversing the result: rows with equal keys swap on every pass
SortKeyed_by_reversal(order, s) ==
    LET Reverse(t) == [i \in 1..Len(t) |-> t[Len(t) + 1 - i]] IN
    IF order = "Ascending" THEN SortAscending(s)
    ELSE Reverse(SortAscending(s))

RECURSIVE SortKeyed(_, _)
\* slice::sort_by on a sequence of [key, row] pairs
SortKeyed(order, s) ==
    IF s = <<>> THEN <<>>
    ELSE InsertBy(order, s[Len(s)], SortKeyed(order, SubSeq(s, 1, Len(s) - 1)))

----------------------------------------------------------------------------
(* The store: db.rs *)

EmptyDb == [orgs |-> <<>>, repos |-> <<>>, contributors |-> <<>>,
            scrapes |-> <<>>, repo_scrapes |-> <<>>, contributor_scrapes |-> <<>>]

\* INSERT ... ON CONFLICT(key) DO UPDATE ... RETURNING id: the id of the row
\* with this key, appended when there is none
UpsertId(table, row) ==
    IF \E i \in 1..Len(table) : table[i] = row
    THEN CHOOSE i \in 1..Len(table) : table[i] = row
    ELSE Len(table) + 1

\* a plain INSERT where the upsert is
Upsert_always_inserts(table, row) == Append(table, row)

Upsert(table, row) ==
    IF \E i \in 1..Len(table) : table[i] = row THEN table ELSE Append(table, row)

\* Org::create: <<store, id>>
Org_create(d, name) ==
    <<[d EXCEPT !.orgs = Upsert(@, name)], UpsertId(d.orgs, name)>>

\* Contributor::create
Contributor_create(d, username) ==
    <<[d EXCEPT !.contributors = Upsert(@, username)], UpsertId(d.contributors, username)>>

\* Repo::create
Repo_create(d, name, org_id) ==
    LET row == [name |-> name, org_id |-> org_id]
    IN <<[d EXCEPT !.repos = Upsert(@, row)], UpsertId(d.repos, row)>>

\* Scrape::create
Scrape_create(d, start_dt, end_dt) ==
    <<[d EXCEPT !.scrapes = Append(@, [start_dt |-> start_dt, end_dt |-> end_dt])],
      Len(d.scrapes) + 1>>

\* RepoScrape::create: a plain INSERT
RepoScrape_create(d, scrape_id, org_id, repo_id, commits, prs, lines) ==
    <<[d EXCEPT !.repo_scrapes = Append(@,
          [scrape_id |-> scrape_id, org_id |-> org_id, repo_id |-> repo_id,
           commits |-> commits, prs |-> prs, lines |-> lines])],
      Len(d.repo_scrapes) + 1>>

\* ContributorScrapes::create: a plain INSERT
ContributorScrapes_create(d, repo_scrape_id, contributor_id, commits, lines) ==
    <<[d EXCEPT !.contributor_scrapes = Append(@,
          [repo_scrape_id |-> repo_scrape_id, contributor_id |-> contributor_id,
           commits |-> commits, lines |-> lines])],
      Len(d.contributor_scrapes) + 1>>

----------------------------------------------------------------------------
(* The Aggregator: scraper.rs, TempRepoScrape *)

\* TempRepoScrape::new
TempRepoScrape_new ==
    [contributors |-> [u \in {} |-> 0], total_commits |-> 0, total_prs |-> 0,
     total_lines |-> 0]

\* HashMap::entry(k).or_insert_with(|| TempContributorData {username, 0, 0})
entry_or_insert(c, k) ==
    [u \in DOMAIN c \cup {k} |->
        IF u \in DOMAIN c THEN c[u] ELSE [username |-> k, commits |-> 0, lines |-> 0]]

\* Option::unwrap_or_default on an Option<u64>
unwrap_or_default(o) == IF o = None THEN 0 ELSE o[1]

\* the author of a commit or pull request, "anonymous" when it carries none
author_login(o) == IF o = None THEN ANONYMOUS ELSE o[1]

\* process_commit counting the commit before the ignore pattern is tried
process_commit_counts_ignored(t, commit, user_ignore_regex) ==
    LET commit_author == author_login(commit.author)
        counted == [t EXCEPT !.total_commits = @ + 1]
    IN IF regex_find(user_ignore_regex, commit_author) THEN counted
       ELSE LET c == entry_or_insert(t.contributors, commit_author) IN
            [counted EXCEPT !.contributors = [c EXCEPT ![commit_author].commits = @ + 1]]

\* process_commit taking the author's entry before the ignore pattern is tried
process_commit_inserts_before_filter(t, commit, user_ignore_regex) ==
    LET commit_author == author_login(commit.author)
        c == entry_or_insert(t.contributors, commit_author)
    IN IF regex_find(user_ignore_regex, commit_author) THEN [t EXCEPT !.contributors = c]
       ELSE [t EXCEPT !.total_commits = @ + 1,
                      !.contributors = [c EXCEPT ![commit_author].commits = @ + 1]]

\* TempRepoScrape::process_commit
process_commit(t, commit, user_ignore_regex) ==
    LET commit_author == author_login(commit.author) IN
    IF regex_find(user_ignore_regex, commit_author) THEN t
    ELSE LET c == entry_or_insert(t.contributors, commit_author) IN
         [t EXCEPT !.total_commits = @ + 1,
                   !.contributors = [c EXCEPT ![commit_author].commits = @ + 1]]

\* process_pr crediting the lines to the repository only
process_pr_without_contributor_lines(t, pr, user_ignore_regex) ==
    LET author == author_login(pr.user) IN
    IF regex_find(user_ignore_regex, author) THEN t
    ELSE LET c == entry_or_insert(t.contributors, author)
             line_count == unwrap_or_default(pr.additions) + unwrap_or_default(pr.deletions)
         IN [t EXCEPT !.contributors = c,
                      !.total_prs = @ + 1,
                      !.total_lines = @ + line_count]

\* process_pr crediting the author with a commit as well
process_pr_counts_commit(t, pr, user_ignore_regex) ==
    LET author == author_login(pr.user) IN
    IF regex_find(user_ignore_regex, author) THEN t
    ELSE LET c == entry_or_insert(t.contributors, author)
             line_count == unwrap_or_default(pr.additions) + unwrap_or_default(pr.deletions)
         IN [t EXCEPT !.contributors = [c EXCEPT ![author].lines = @ + line_count,
                                                 ![author].commits = @ + 1],
                      !.total_prs = @ + 1,
                      !.total_lines = @ + line_count]

\* TempRepoScrape::process_pr
process_pr(t, pr, user_ignore_regex) ==
    LET author == author_login(pr.user) IN
    IF regex_find(user_ignore_regex, author) THEN t
    ELSE LET c == entry_or_insert(t.contributors, author)
             line_count == unwrap_or_default(pr.additions) + unwrap_or_default(pr.deletions)
         IN [t EXCEPT !.contributors = [c EXCEPT ![author].lines = @ + line_count],
                      !.total_prs = @ + 1,
                      !.total_lines = @ + line_count]

RECURSIVE process_commits(_, _, _)
\* the loop of run_scrape over commits_this_week
process_commits(t, commits, re) ==
    IF commits = <<>> THEN t
    ELSE process_commits(process_commit(t, Head(commits), re), Tail(commits), re)

RECURSIVE process_prs(_, _, _)
\* the loop of run_scrape over repo_prs
process_prs(t, prs, re) ==
    IF prs = <<>> THEN t
    ELSE process_prs(process_pr(t, Head(prs), re), Tail(prs), re)

----------------------------------------------------------------------------
(* The upstream client: github.rs *)

RECURSIVE get_repo_prs_loop(_, _, _)
\* the loop of Github::get_repo_prs over the listing
get_repo_prs_loop(repo_details, since, res) ==
    IF repo_details = <<>> THEN res
    ELSE LET detail == Head(repo_details) IN
         IF detail.merged_at = None
         THEN get_repo_prs_loop(Tail(repo_details), since, res)
         ELSE IF detail.merged_at[1] < since
         THEN res
         ELSE get_repo_prs_loop(Tail(repo_details), since, Append(res, detail))

\* Github::get_repo_prs when every request succeeds
get_repo_prs(listing, since) == get_repo_prs_loop(listing, since, <<>>)

\* Github::get_org_repos_by_page: the page-th page the upstream serves
get_org_repos_by_page(g, org, page) ==
    IF page <= Len(g.pages[org]) THEN g.pages[org][page] ELSE <<>>

----------------------------------------------------------------------------
(* The Collection Orchestrator: scraper.rs, run_scrape *)

\* the page size run_scrape asks for, and the count that keeps it paging
PER_PAGE == 50

\* Duration::days(7)
LOOKBACK_DAYS == 7

IdleRun ==
    [pc |-> "idle", scrape_id |-> 0, start_time |-> 0, orgs |-> <<>>, org |-> <<>>,
     db_org |-> 0, page |-> 0, results_count |-> 0, repos |-> <<>>, repo |-> <<>>,
     db_repo |-> 0, temp |-> TempRepoScrape_new, repo_scrape |-> 0, todo |-> {},
     repo_prs |-> <<>>]

RunFrame == UNCHANGED <<gh, cfg, fed, appVars, loopVars>>

\* lines 90-105: pool, migrations, config, token, get_orgs, the two regexes, the
\* window, Scrape::create.  Any of them failing returns Err.
RunBegin ==
    /\ run.pc = "begin"
    /\ \/ /\ run' = [run EXCEPT !.pc = "failed"]
          /\ UNCHANGED <<db, clock>>
       \/ LET now == clock + 1
              start_time == now - LOOKBACK_DAYS
              r == Scrape_create(db, start_time, now)
          IN /\ clock' = now
             /\ db' = r[1]
             /\ run' = [run EXCEPT !.pc = "org_loop", !.scrape_id = r[2],
                                   !.start_time = start_time, !.orgs = gh.orgs]
    /\ RunFrame

\* lines 107-116: the next organization, skipped when the ignore pattern finds it
NextOrg ==
    /\ run.pc = "org_loop"
    /\ IF run.orgs = <<>>
       THEN /\ run' = [run EXCEPT !.pc = "done"]
            /\ UNCHANGED db
       ELSE LET org == Head(run.orgs) IN
            IF regex_find(cfg.ignored_org_pattern, org)
            THEN /\ run' = [run EXCEPT !.orgs = Tail(@)]
                 /\ UNCHANGED db
            ELSE \/ /\ run' = [run EXCEPT !.pc = "failed"]
                    /\ UNCHANGED db
                 \/ LET r == Org_create(db, org) IN
                    /\ db' = r[1]
                    /\ run' = [run EXCEPT !.pc = "page_loop", !.orgs = Tail(@),
                                          !.org = org, !.db_org = r[2],
                                          !.results_count = PER_PAGE, !.page = 1]
    /\ UNCHANGED clock
    /\ RunFrame

\* the page loop going on until a page comes back empty
NextPage_until_empty ==
    /\ run.pc = "page_loop"
    /\ IF run.results_count = 0
       THEN run' = [run EXCEPT !.pc = "org_loop"]
       ELSE \/ run' = [run EXCEPT !.pc = "failed"]
            \/ run' = [run EXCEPT !.pc = "repo_loop", !.results_count = 0,
                                  !.repos = get_org_repos_by_page(gh, run.org, run.page)]
    /\ UNCHANGED <<db, clock>>
    /\ RunFrame

\* lines 118-120: while results_count == 50, fetch the page
NextPage ==
    /\ run.pc = "page_loop"
    /\ IF run.results_count # PER_PAGE
       THEN run' = [run EXCEPT !.pc = "org_loop"]
       ELSE \/ run' = [run EXCEPT !.pc = "failed"]
            \/ run' = [run EXCEPT !.pc = "repo_loop", !.results_count = 0,
                                  !.repos = get_org_repos_by_page(gh, run.org, run.page)]
    /\ UNCHANGED <<db, clock>>
    /\ RunFrame

\* lines 122-142: the next repository of the page: Repo::create, a fresh
\* Aggregator, get_repo_commits (Err: continue), the commit loop, and the
\* commit_counter == 0 gate
NextRepo ==
    /\ run.pc = "repo_loop"
    /\ IF run.repos = <<>>
       THEN /\ run' = [run EXCEPT !.pc = "page_loop", !.page = @ + 1]
            /\ UNCHANGED db
       ELSE LET repo == Head(run.repos)
                r == Repo_create(db, repo, run.db_org)
                \* repo_scrape and repo_prs are locals of one turn of the loop
                here == [run EXCEPT !.results_count = @ + 1, !.repos = Tail(@),
                                    !.repo = repo, !.repo_scrape = 0,
                                    !.repo_prs = <<>>]
                commits_this_week == gh.commits[<<run.org, repo>>]
                temp == process_commits(TempRepoScrape_new, commits_this_week,
                                        cfg.ignored_user_patterns)
                commit_counter == Len(commits_this_week)
            IN \/ /\ run' = [here EXCEPT !.pc = "failed"]
                  /\ UNCHANGED db
               \/ \* get_repo_commits returned Err: continue
                  /\ db' = r[1]
                  /\ run' = [here EXCEPT !.db_repo = r[2], !.temp = TempRepoScrape_new]
               \/ /\ db' = r[1]
                  /\ run' = [here EXCEPT !.db_repo = r[2], !.temp = temp,
                                         !.pc = IF commit_counter = 0
                                                THEN "repo_loop" ELSE "prs"]
    /\ UNCHANGED clock
    /\ RunFrame

\* lines 144-147: get_repo_prs (Err: the run returns Err), the pull-request loop
FetchPrs ==
    /\ run.pc = "prs"
    /\ \/ run' = [run EXCEPT !.pc = "failed"]
       \/ LET repo_prs == get_repo_prs(gh.prs[<<run.org, run.repo>>], run.start_time)
          IN run' = [run EXCEPT !.pc = "save_repo", !.repo_prs = repo_prs,
                        !.temp = process_prs(@, repo_prs, cfg.ignored_user_patterns)]
    /\ UNCHANGED <<db, clock>>
    /\ RunFrame

\* lines 149-158: RepoScrape::create
SaveRepoScrape ==
    /\ run.pc = "save_repo"
    /\ \/ /\ run' = [run EXCEPT !.pc = "failed"]
          /\ UNCHANGED db
       \/ LET r == RepoScrape_create(db, run.scrape_id, run.db_org, run.db_repo,
                                     run.temp.total_commits, run.temp.total_prs,
                                     run.temp.total_lines)
          IN /\ db' = r[1]
             /\ run' = [run EXCEPT !.pc = "contributors", !.repo_scrape = r[2],
                                   !.todo = DOMAIN run.temp.contributors]
    /\ UNCHANGED clock
    /\ RunFrame

\* lines 160-170: one turn of the loop over the contributors map (a HashMap:
\* any order): Contributor::create, ContributorScrapes::create
SaveContributor ==
    /\ run.pc = "contributors"
    /\ IF run.todo = {}
       THEN /\ run' = [run EXCEPT !.pc = "repo_loop"]
            /\ UNCHANGED db
       ELSE \E u \in run.todo :
            LET temp_contributor == run.temp.contributors[u]
                c == Contributor_create(db, temp_contributor.username)
                s == ContributorScrapes_create(c[1], run.repo_scrape, c[2],
                                               temp_contributor.commits,
                                               temp_contributor.lines)
            IN \/ /\ run' = [run EXCEPT !.pc = "failed"]
                  /\ UNCHANGED db
               \/ /\ run' = [run EXCEPT !.pc = "failed"]
                  /\ db' = c[1]
               \/ /\ run' = [run EXCEPT !.todo = @ \ {u}]
                  /\ db' = s[1]
    /\ UNCHANGED clock
    /\ RunFrame

----------------------------------------------------------------------------
(* The query layer: db.rs, the statistics queries *)

\* the rows of a keyed sequence
Unkey(s) == [i \in 1..Len(s) |-> s[i].row]

\* ORDER BY <integer column> DESC over rows produced in the order given
OrderByDesc(s) == Unkey(SortKeyed("Descending", s))

\* repo_scrapes rs WHERE rs.scrape_id = $1
RsOf(d, scrape_id) ==
    {r \in 1..Len(d.repo_scrapes) : d.repo_scrapes[r].scrape_id = scrape_id}

\* contributor_scrapes cs ON rs.id = cs.repo_scrape_id
CsOf(d, r) ==
    {c \in 1..Len(d.contributor_scrapes) : d.contributor_scrapes[c].repo_scrape_id = r}

\* rs LEFT JOIN cs: one joined row <<rs, cs>> per contributor_scrapes row of rs,
\* and one <<rs, 0>> (cs all NULL) for an rs that has none
LeftJoinCs(d, R) ==
    {j \in R \X (0..Len(d.contributor_scrapes)) :
        IF j[2] = 0 THEN CsOf(d, j[1]) = {} ELSE j[2] \in CsOf(d, j[1])}

\* COUNT(DISTINCT cs.contributor_id) over joined rows (NULLs are not counted)
CountContributors(d, J) ==
    Cardinality({d.contributor_scrapes[j[2]].contributor_id : j \in {x \in J : x[2] # 0}})

\* get_org_stats
get_org_stats(d, scrape_id) ==
    LET J == LeftJoinCs(d, RsOf(d, scrape_id))
        groups == SeqOfSet({d.repo_scrapes[j[1]].org_id : j \in J})
        Of(o) == {j \in J : d.repo_scrapes[j[1]].org_id = o}
        stats(o) ==
            [name |-> d.orgs[o],
             total_commits |-> SumOver(Of(o), [j \in Of(o) |-> d.repo_scrapes[j[1]].commits]),
             total_lines |-> SumOver(Of(o), [j \in Of(o) |-> d.repo_scrapes[j[1]].lines]),
             repo_count |-> Cardinality({d.repo_scrapes[j[1]].repo_id : j \in Of(o)}),
             contributor_count |-> CountContributors(d, Of(o))]
    IN OrderByDesc([i \in 1..Len(groups) |->
           [key |-> IntKey(stats(groups[i]).total_commits), row |-> stats(groups[i])]])

\* the RepoStats row of one repo_scrapes row
RepoStatsOf(d, r) ==
    LET rs == d.repo_scrapes[r] IN
    [org_name |-> d.orgs[rs.org_id], repo_name |-> d.repos[rs.repo_id].name,
     commits |-> rs.commits, lines |-> rs.lines, prs |-> rs.prs,
     contributor_count |-> CountContributors(d, LeftJoinCs(d, {r}))]

\* get_repo_stats: GROUP BY rs.id
get_repo_stats(d, scrape_id) ==
    LET groups == SeqOfSet(RsOf(d, scrape_id))
    IN OrderByDesc([i \in 1..Len(groups) |->
           [key |-> IntKey(d.repo_scrapes[groups[i]].commits),
            row |-> RepoStatsOf(d, groups[i])]])

\* contributor_scrapes of contributor c in the snapshot
CsOfContributor(d, scrape_id, c) ==
    {i \in 1..Len(d.contributor_scrapes) :
        /\ d.contributor_scrapes[i].contributor_id = c
        /\ d.contributor_scrapes[i].repo_scrape_id \in RsOf(d, scrape_id)}

\* SELECT DISTINCT o.name ... ORDER BY o.name
OrgNamesOf(d, R) ==
    LET ids == SeqOfSet({d.repo_scrapes[r].org_id : r \in R})
    IN Unkey(SortKeyed("Ascending",
           [i \in 1..Len(ids) |-> [key |-> StrKey(d.orgs[ids[i]]), row |-> d.orgs[ids[i]]]]))

\* get_contributor_stats
get_contributor_stats(d, scrape_id) ==
    LET groups == SeqOfSet({c \in 1..Len(d.contributors) :
                               CsOfContributor(d, scrape_id, c) # {}})
        stats(c) ==
            LET S == CsOfContributor(d, scrape_id, c)
                R == {d.contributor_scrapes[i].repo_scrape_id : i \in S}
            IN [username |-> d.contributors[c],
                total_commits |-> SumOver(S, [i \in S |-> d.contributor_scrapes[i].commits]),
                total_lines |-> SumOver(S, [i \in S |-> d.contributor_scrapes[i].lines]),
                repo_count |-> Cardinality({d.repo_scrapes[r].repo_id : r \in R}),
                orgs |-> OrgNamesOf(d, R)]
    IN OrderByDesc([i \in 1..Len(groups) |->
           [key |-> IntKey(stats(groups[i]).total_commits), row |-> stats(groups[i])]])

\* get_org_detail: GROUP BY o.name, r.name, rs.commits, rs.lines, rs.prs
get_org_detail(d, scrape_id, org_name) ==
    LET R == {r \in RsOf(d, scrape_id) : d.orgs[d.repo_scrapes[r].org_id] = org_name}
        GroupKey(r) == [RepoStatsOf(d, r) EXCEPT !.contributor_count = 0]
        Group(r) == {x \in R : GroupKey(x) = GroupKey(r)}
        \* one representative per group: its first row
        groups == SeqOfSet({r \in R : \A x \in Group(r) : r <= x})
        stats(r) == [RepoStatsOf(d, r) EXCEPT
                        !.contributor_count = CountContributors(d, LeftJoinCs(d, Group(r)))]
    IN [org_name |-> org_name,
        repos |-> OrderByDesc([i \in 1..Len(groups) |->
                     [key |-> IntKey(stats(groups[i]).commits), row |-> stats(groups[i])]])]

\* contributor_scrapes joined to the repo_scrapes of one repository in the snapshot
CsOfRepo(d, scrape_id, org_name, repo_name) ==
    {i \in 1..Len(d.contributor_scrapes) :
        LET r == d.contributor_scrapes[i].repo_scrape_id IN
        /\ r \in RsOf(d, scrape_id)
        /\ d.orgs[d.repo_scrapes[r].org_id] = org_name
        /\ d.repos[d.repo_scrapes[r].repo_id].name = repo_name}

\* get_repo_detail
get_repo_detail(d, scrape_id, org_name, repo_name) ==
    LET S == SeqOfSet(CsOfRepo(d, scrape_id, org_name, repo_name))
        row(i) == [username |-> d.contributors[d.contributor_scrapes[i].contributor_id],
                   commits |-> d.contributor_scrapes[i].commits,
                   lines |-> d.contributor_scrapes[i].lines,
                   prs |-> 0]
    IN [org_name |-> org_name, repo_name |-> repo_name,
        contributors |-> OrderByDesc([k \in 1..Len(S) |->
                            [key |-> IntKey(row(S[k]).commits), row |-> row(S[k])]])]

\* get_contributor_detail
get_contributor_detail(d, scrape_id, username) ==
    LET S == SeqOfSet({i \in 1..Len(d.contributor_scrapes) :
                 /\ d.contributor_scrapes[i].repo_scrape_id \in RsOf(d, scrape_id)
                 /\ d.contributors[d.contributor_scrapes[i].contributor_id] = username})
        row(i) == LET rs == d.repo_scrapes[d.contributor_scrapes[i].repo_scrape_id] IN
                  [org_name |-> d.orgs[rs.org_id], repo_name |-> d.repos[rs.repo_id].name,
                   commits |-> d.contributor_scrapes[i].commits,
                   lines |-> d.contributor_scrapes[i].lines,
                   prs |-> 0]
    IN [username |-> username,
        contributions |-> OrderByDesc([k \in 1..Len(S) |->
                             [key |-> IntKey(row(S[k]).commits), row |-> row(S[k])]])]

\* Scrape::list_all: ORDER BY start_dt DESC, with the repo_scrapes count
Scrape_list_all(d) ==
    OrderByDesc([i \in 1..Len(d.scrapes) |->
        [key |-> IntKey(d.scrapes[i].start_dt),
         row |-> [id |-> i, start_dt |-> d.scrapes[i].start_dt,
                  end_dt |-> d.scrapes[i].end_dt,
                  repo_count |-> Cardinality(RsOf(d, i))]]])

\* Scrape::get_latest: ... ORDER BY start_dt DESC LIMIT 1
Scrape_get_latest(d) ==
    IF d.scrapes = <<>> THEN None ELSE Some(Scrape_list_all(d)[1])

----------------------------------------------------------------------------
(* ViewData: stats.rs *)

\* ViewData as a tagged record: key holds the names a detail carries
\* (org_name; org_name, repo_name; username), rows its Vec, msg the Error text
ViewData(tag, key, rows, msg) == [tag |-> tag, key |-> key, rows |-> rows, msg |-> msg]

Loading == ViewData("Loading", <<>>, <<>>, "")
Error(msg) == ViewData("Error", <<>>, <<>>, msg)
Orgs(rows) == ViewData("Orgs", <<>>, rows, "")
Repos(rows) == ViewData("Repos", <<>>, rows, "")
Contributors(rows) == ViewData("Contributors", <<>>, rows, "")
OrgDetail(detail) == ViewData("OrgDetail", <<detail.org_name>>, detail.repos, "")
RepoDetail(detail) ==
    ViewData("RepoDetail", <<detail.org_name, detail.repo_name>>, detail.contributors, "")
ContributorDetail(detail) ==
    ViewData("ContributorDetail", <<detail.username>>, detail.contributions, "")

----------------------------------------------------------------------------
(* Sorting: app/state.rs *)

SortFields == {"Name", "Commits", "Lines", "Repos", "Prs"}

\* the key sort_orgs_static compares
org_key(row, field) ==
    CASE field = "Name" -> StrKey(row.name)
      [] field = "Commits" -> IntKey(row.total_commits)
      [] field = "Lines" -> IntKey(row.total_lines)
      [] field = "Repos" -> IntKey(row.repo_count)
      [] field = "Prs" -> IntKey(row.total_commits)

\* the key sort_repos_static compares
repo_key(row, field) ==
    CASE field = "Name" -> StrKey(row.repo_name)
      [] field = "Commits" -> IntKey(row.commits)
      [] field = "Lines" -> IntKey(row.lines)
      [] field = "Prs" -> IntKey(row.prs)
      [] field = "Repos" -> IntKey(row.commits)

\* the key sort_contributors_static compares
contributor_key(row, field) ==
    CASE field = "Name" -> StrKey(row.username)
      [] field = "Commits" -> IntKey(row.total_commits)
      [] field = "Lines" -> IntKey(row.total_lines)
      [] field = "Repos" -> IntKey(row.repo_count)
      [] field = "Prs" -> IntKey(row.total_commits)

\* the key sort_repo_contributors_static compares
repo_contributor_key(row, field) ==
    CASE field = "Name" -> StrKey(row.username)
      [] field = "Commits" -> IntKey(row.commits)
      [] field = "Lines" -> IntKey(row.lines)
      [] field = "Prs" -> IntKey(row.prs)
      [] field = "Repos" -> IntKey(row.commits)

\* the key sort_contributor_repos_static compares
contributor_repo_key(row, field) ==
    CASE field = "Name" -> StrKey(row.repo_name)
      [] field = "Commits" -> IntKey(row.commits)
      [] field = "Lines" -> IntKey(row.lines)
      [] field = "Prs" -> IntKey(row.prs)
      [] field = "Repos" -> StrKey(row.repo_name)

sort_orgs_static(rows, field, order) ==
    Unkey(SortKeyed(order,
        [i \in 1..Len(rows) |-> [key |-> org_key(rows[i], field), row |-> rows[i]]]))

sort_repos_static(rows, field, order) ==
    Unkey(SortKeyed(order,
        [i \in 1..Len(rows) |-> [key |-> repo_key(rows[i], field), row |-> rows[i]]]))

sort_contributors_static(rows, field, order) ==
    Unkey(SortKeyed(order,
        [i \in 1..Len(rows) |-> [key |-> contributor_key(rows[i], field), row |-> rows[i]]]))

sort_repo_contributors_static(rows, field, order) ==
    Unkey(SortKeyed(order,
        [i \in 1..Len(rows) |-> [key |-> repo_contributor_key(rows[i], field), row |-> rows[i]]]))

sort_contributor_repos_static(rows, field, order) ==
    Unkey(SortKeyed(order,
        [i \in 1..Len(rows) |-> [key |-> contributor_repo_key(rows[i], field), row |-> rows[i]]]))

\* App::apply_sort on the data (it also resets selected_index to 0)
apply_sort(vd, field, order) ==
    CASE vd.tag = "Orgs" -> [vd EXCEPT !.rows = sort_orgs_static(@, field, order)]
      [] vd.tag = "Repos" -> [vd EXCEPT !.rows = sort_repos_static(@, field, order)]
      [] vd.tag = "Contributors" ->
            [vd EXCEPT !.rows = sort_contributors_static(@, field, order)]
      [] vd.tag = "OrgDetail" -> [vd EXCEPT !.rows = sort_repos_static(@, field, order)]
      [] vd.tag = "RepoDetail" ->
            [vd EXCEPT !.rows = sort_repo_contributors_static(@, field, order)]
      [] vd.tag = "ContributorDetail" ->
            [vd EXCEPT !.rows = sort_contributor_repos_static(@, field, order)]
      [] OTHER -> vd

\* App::get_item_count
get_item_count(vd) == Len(vd.rows)

----------------------------------------------------------------------------
(* The dashboard state machine: app/state.rs *)

Views == {"Org", "Repo", "Contributors", "ScrapeSelection",
          "OrgDetail", "RepoDetail", "ContributorDetail"}

flagVars == <<pending_view_switch, start_scraping_requested, drill_down_requested,
              navigate_back_requested>>
sortVars == <<sort_order, sort_field>>
scrapingVars == <<is_scraping, scraping_error>>
navVars == <<current_view, current_scrape, scrapes, data, selected_index, view_history>>

\* the queries refresh_current_view_data runs for a view (lines 232-252); the
\* Snapshot Picker and the detail views load nothing
LoadView(view, scrape_id, cur) ==
    CASE view = "Org" -> Orgs(get_org_stats(db, scrape_id))
      [] view = "Repo" -> Repos(get_repo_stats(db, scrape_id))
      [] view = "Contributors" -> Contributors(get_contributor_stats(db, scrape_id))
      [] OTHER -> cur

\* refresh_current_view_data leaving the rows in the order the query gave
refresh_current_view_data_unsorted(view, scrape, cur, sel, ok) ==
    IF scrape = None
    THEN [data |-> Error("No scrape selected"), sel |-> sel, res |-> "Ok"]
    ELSE IF ok
    THEN [data |-> LoadView(view, scrape[1], cur), sel |-> 0, res |-> "Ok"]
    ELSE [data |-> cur, sel |-> sel, res |-> "Err"]

\* App::refresh_current_view_data from (view, scrape, data, selected_index):
\* the data and selected_index it leaves and the Result it returns; ok says
\* whether the pool, the connection and the query succeed
refresh_current_view_data(view, scrape, cur, sel, ok) ==
    IF scrape = None
    THEN [data |-> Error("No scrape selected"), sel |-> sel, res |-> "Ok"]
    ELSE IF ok
    THEN [data |-> apply_sort(LoadView(view, scrape[1], cur), sort_field, sort_order),
          sel |-> 0, res |-> "Ok"]
    ELSE [data |-> cur, sel |-> sel, res |-> "Err"]

\* App::quit
quit ==
    /\ should_quit' = TRUE
    /\ UNCHANGED <<navVars, sortVars, scrape_selected_index, scrapingVars, flagVars>>

\* request_view_switch entering the view at once
request_view_switch_eager(view) ==
    /\ pending_view_switch' = IF current_view # view THEN Some(view)
                              ELSE pending_view_switch
    /\ current_view' = view
    /\ UNCHANGED <<current_scrape, scrapes, data, selected_index, view_history, sortVars,
                   scrape_selected_index, scrapingVars, should_quit,
                   start_scraping_requested, drill_down_requested,
                   navigate_back_requested>>

\* App::request_view_switch
request_view_switch(view) ==
    /\ pending_view_switch' = IF current_view # view THEN Some(view)
                              ELSE pending_view_switch
    /\ UNCHANGED <<navVars, sortVars, scrape_selected_index, scrapingVars, should_quit,
                   start_scraping_requested, drill_down_requested,
                   navigate_back_requested>>

Flip(order) == IF order = "Ascending" THEN "Descending" ELSE "Ascending"

\* App::toggle_sort_order
toggle_sort_order ==
    /\ sort_order' = Flip(sort_order)
    /\ data' = apply_sort(data, sort_field, sort_order')
    /\ selected_index' = 0
    /\ UNCHANGED <<sort_field, current_view, current_scrape, scrapes, view_history,
                   scrape_selected_index, scrapingVars, should_quit, flagVars>>

\* set_sort_field keeping the order when the field changes
set_sort_field_keeps_order(field) ==
    /\ sort_field' = field
    /\ sort_order' = IF sort_field # field THEN sort_order ELSE Flip(sort_order)
    /\ data' = apply_sort(data, sort_field', sort_order')
    /\ selected_index' = 0
    /\ UNCHANGED <<current_view, current_scrape, scrapes, view_history,
                   scrape_selected_index, scrapingVars, should_quit, flagVars>>

\* App::set_sort_field
set_sort_field(field) ==
    /\ sort_field' = field
    /\ sort_order' = IF sort_field # field THEN "Descending" ELSE Flip(sort_order)
    /\ LET toggled == IF sort_field # field THEN data
                      ELSE apply_sort(data, sort_field, sort_order')
       IN data' = apply_sort(toggled, sort_field', sort_order')
    /\ selected_index' = 0
    /\ UNCHANGED <<current_view, current_scrape, scrapes, view_history,
                   scrape_selected_index, scrapingVars, should_quit, flagVars>>

\* move_selection_up stopping at the first row
move_selection_up_clamped ==
    /\ selected_index' = IF selected_index = 0 THEN 0 ELSE selected_index - 1
    /\ UNCHANGED <<current_view, current_scrape, scrapes, data, view_history, sortVars,
                   scrape_selected_index, scrapingVars, should_quit, flagVars>>

\* App::move_selection_up
move_selection_up ==
    /\ LET item_count == get_item_count(data) IN
       selected_index' = IF item_count > 0
                         THEN IF selected_index = 0 THEN item_count - 1
                              ELSE selected_index - 1
                         ELSE selected_index
    /\ UNCHANGED <<current_view, current_scrape, scrapes, data, view_history, sortVars,
                   scrape_selected_index, scrapingVars, should_quit, flagVars>>

\* move_selection_down going past the last row
move_selection_down_unbounded ==
    /\ selected_index' = IF get_item_count(data) > 0 THEN selected_index + 1
                         ELSE selected_index
    /\ UNCHANGED <<current_view, current_scrape, scrapes, data, view_history, sortVars,
                   scrape_selected_index, scrapingVars, should_quit, flagVars>>

\* App::move_selection_down
move_selection_down ==
    /\ LET item_count == get_item_count(data) IN
       selected_index' = IF item_count > 0 THEN (selected_index + 1) % item_count
                         ELSE selected_index
    /\ UNCHANGED <<current_view, current_scrape, scrapes, data, view_history, sortVars,
                   scrape_selected_index, scrapingVars, should_quit, flagVars>>

\* App::move_scrape_selection_up
move_scrape_selection_up ==
    /\ scrape_selected_index' =
          IF scrapes # <<>>
          THEN IF scrape_selected_index = 0 THEN Len(scrapes) - 1
               ELSE scrape_selected_index - 1
          ELSE scrape_selected_index
    /\ UNCHANGED <<navVars, sortVars, scrapingVars, should_quit, flagVars>>

\* App::move_scrape_selection_down
move_scrape_selection_down ==
    /\ scrape_selected_index' =
          IF scrapes # <<>> THEN (scrape_selected_index + 1) % Len(scrapes)
          ELSE scrape_selected_index
    /\ UNCHANGED <<navVars, sortVars, scrapingVars, should_quit, flagVars>>

\* App::request_scraping
request_scraping ==
    /\ start_scraping_requested' = TRUE
    /\ UNCHANGED <<navVars, sortVars, scrape_selected_index, scrapingVars, should_quit,
                   pending_view_switch, drill_down_requested, navigate_back_requested>>

\* App::request_drill_down
request_drill_down ==
    /\ drill_down_requested' = TRUE
    /\ UNCHANGED <<navVars, sortVars, scrape_selected_index, scrapingVars, should_quit,
                   pending_view_switch, start_scraping_requested,
                   navigate_back_requested>>

\* App::request_navigate_back
request_navigate_back ==
    /\ navigate_back_requested' = TRUE
    /\ UNCHANGED <<navVars, sortVars, scrape_selected_index, scrapingVars, should_quit,
                   pending_view_switch, start_scraping_requested, drill_down_requested>>

\* the Enter arm in the Snapshot Picker: app.pending_view_switch = Some(View::Org)
set_pending_org ==
    /\ pending_view_switch' = Some("Org")
    /\ UNCHANGED <<navVars, sortVars, scrape_selected_index, scrapingVars, should_quit,
                   start_scraping_requested, drill_down_requested,
                   navigate_back_requested>>

\* a key arm that does nothing
no_op == UNCHANGED appVars

----------------------------------------------------------------------------
(* Key events: app/events.rs *)

Keys == {"q", "Esc", "t", "o", "r", "u", "Up", "Down", "Enter",
         "s", "n", "c", "l", "p", "R", "S"}

InPicker == current_view = "ScrapeSelection"

\* handle_key_event for a key press
handle_key_event(key) ==
    CASE key = "q" -> quit
      [] key = "Esc" -> IF InPicker THEN request_view_switch("Org") ELSE quit
      [] key = "t" -> IF InPicker THEN request_view_switch("Org")
                      ELSE request_view_switch("ScrapeSelection")
      [] key = "o" -> request_view_switch("Org")
      [] key = "r" -> request_view_switch("Repo")
      [] key = "u" -> request_view_switch("Contributors")
      [] key = "Up" -> IF InPicker THEN move_scrape_selection_up ELSE move_selection_up
      [] key = "Down" -> IF InPicker THEN move_scrape_selection_down
                         ELSE move_selection_down
      [] key = "Enter" -> IF InPicker THEN set_pending_org ELSE no_op
      [] key = "s" -> IF ~InPicker THEN toggle_sort_order ELSE no_op
      [] key = "n" -> IF ~InPicker THEN set_sort_field("Name") ELSE no_op
      [] key = "c" -> IF ~InPicker THEN set_sort_field("Commits") ELSE no_op
      [] key = "l" -> IF ~InPicker THEN set_sort_field("Lines") ELSE no_op
      [] key = "p" -> IF ~InPicker THEN set_sort_field("Prs") ELSE no_op
      [] key = "R" -> IF ~InPicker THEN set_sort_field("Repos") ELSE no_op
      [] key = "S" -> IF ~is_scraping THEN request_scraping ELSE no_op

----------------------------------------------------------------------------
(* The deferred handlers: app/state.rs *)

\* select_current_scrape leaving current_scrape as it was
select_current_scrape_keeps_scrape(ok) ==
    IF scrape_selected_index < Len(scrapes)
    THEN LET r == refresh_current_view_data("Org", current_scrape, data, 0, ok)
         IN /\ UNCHANGED current_scrape
            /\ current_view' = "Org"
            /\ selected_index' = r.sel
            /\ data' = r.data
            /\ result' = r.res
    ELSE /\ UNCHANGED <<current_scrape, current_view, selected_index, data>>
         /\ result' = "Ok"

\* select_current_scrape loading the rollup without leaving the Snapshot Picker
select_current_scrape_stays_in_picker(ok) ==
    IF scrape_selected_index < Len(scrapes)
    THEN LET scrape == scrapes[scrape_selected_index + 1]
             r == refresh_current_view_data("Org", Some(scrape.id), data, 0, ok)
         IN /\ current_scrape' = Some(scrape.id)
            /\ UNCHANGED current_view
            /\ selected_index' = r.sel
            /\ data' = r.data
            /\ result' = r.res
    ELSE /\ UNCHANGED <<current_scrape, current_view, selected_index, data>>
         /\ result' = "Ok"

\* App::select_current_scrape
select_current_scrape(ok) ==
    IF scrape_selected_index < Len(scrapes)
    THEN LET scrape == scrapes[scrape_selected_index + 1]
             r == refresh_current_view_data("Org", Some(scrape.id), data, 0, ok)
         IN /\ current_scrape' = Some(scrape.id)
            /\ current_view' = "Org"
            /\ selected_index' = r.sel
            /\ data' = r.data
            /\ result' = r.res
    ELSE /\ UNCHANGED <<current_scrape, current_view, selected_index, data>>
         /\ result' = "Ok"

\* App::switch_view_with_data
switch_view_with_data(view, ok) ==
    IF current_view # view
    THEN LET r == refresh_current_view_data(view, current_scrape, Loading, 0, ok)
         IN /\ current_view' = view
            /\ selected_index' = r.sel
            /\ data' = r.data
            /\ result' = r.res
            /\ UNCHANGED current_scrape
    ELSE /\ UNCHANGED <<current_scrape, current_view, selected_index, data>>
         /\ result' = "Ok"

\* App::handle_pending_view_switch with a view pending
handle_pending_view_switch(ok) ==
    LET view == pending_view_switch[1] IN
    /\ pending_view_switch' = None
    /\ IF current_view = "ScrapeSelection" /\ view # "ScrapeSelection"
       THEN select_current_scrape(ok)
       ELSE switch_view_with_data(view, ok)
    /\ UNCHANGED <<scrapes, view_history, shown, sortVars, scrape_selected_index,
                   scrapingVars, should_quit, start_scraping_requested,
                   drill_down_requested, navigate_back_requested>>

\* lines 555-584 of App::drill_down: the selected row's (view, context, DrillType)
drill_info ==
    IF selected_index < Len(data.rows)
    THEN LET row == data.rows[selected_index + 1] IN
         CASE data.tag = "Orgs" ->
                Some([view |-> current_view, context |-> row.name,
                      kind |-> "Org", a |-> row.name, b |-> <<>>])
           [] data.tag = "Repos" ->
                Some([view |-> current_view,
                      context |-> format_slash(row.org_name, row.repo_name),
                      kind |-> "Repo", a |-> row.org_name, b |-> row.repo_name])
           [] data.tag = "Contributors" ->
                Some([view |-> current_view, context |-> row.username,
                      kind |-> "Contributor", a |-> row.username, b |-> <<>>])
           [] data.tag = "OrgDetail" ->
                Some([view |-> current_view,
                      context |-> format_slash(data.key[1], row.repo_name),
                      kind |-> "Repo", a |-> row.org_name, b |-> row.repo_name])
           [] data.tag = "RepoDetail" ->
                Some([view |-> current_view, context |-> row.username,
                      kind |-> "Contributor", a |-> row.username, b |-> <<>>])
           [] OTHER -> None
    ELSE None

\* App::drill_into_org / drill_into_repo / drill_into_contributor: the detail
\* loaded and sorted, and the view entered
drill_into(info, scrape_id) ==
    CASE info.kind = "Org" ->
            [view |-> "OrgDetail",
             data |-> apply_sort(OrgDetail(get_org_detail(db, scrape_id, info.a)),
                                 sort_field, sort_order)]
      [] info.kind = "Repo" ->
            [view |-> "RepoDetail",
             data |-> apply_sort(RepoDetail(get_repo_detail(db, scrape_id, info.a, info.b)),
                                 sort_field, sort_order)]
      [] info.kind = "Contributor" ->
            [view |-> "ContributorDetail",
             data |-> apply_sort(
                         ContributorDetail(get_contributor_detail(db, scrape_id, info.a)),
                         sort_field, sort_order)]

\* drill_down entering the detail view without recording where it came from
drill_down_without_push(ok) ==
    IF is_scraping \/ current_scrape = None \/ drill_info = None
    THEN /\ UNCHANGED <<current_view, data, selected_index, view_history, shown>>
         /\ result' = "Ok"
    ELSE LET into == drill_into(drill_info[1], current_scrape[1])
         IN /\ UNCHANGED <<view_history, shown>>
            /\ IF ok
               THEN /\ data' = into.data
                    /\ current_view' = into.view
                    /\ selected_index' = 0
                    /\ result' = "Ok"
               ELSE /\ UNCHANGED <<current_view, data, selected_index>>
                    /\ result' = "Err"

\* App::drill_down
drill_down(ok) ==
    IF is_scraping \/ current_scrape = None \/ drill_info = None
    THEN /\ UNCHANGED <<current_view, data, selected_index, view_history, shown>>
         /\ result' = "Ok"
    ELSE LET info == drill_info[1]
             into == drill_into(info, current_scrape[1])
         IN /\ view_history' = Append(view_history, <<info.view, info.context>>)
            /\ shown' = Append(shown, [view |-> current_view, tag |-> data.tag,
                                       key |-> data.key])
            /\ IF ok
               THEN /\ data' = into.data
                    /\ current_view' = into.view
                    /\ selected_index' = 0
                    /\ result' = "Ok"
               ELSE /\ UNCHANGED <<current_view, data, selected_index>>
                    /\ result' = "Err"

\* lines 611-631 of App::navigate_back: the data the reload leaves for the popped
\* view (starting from Loading) and its Result
reload_previous(previous_view, context, ok) ==
    CASE previous_view \in {"Org", "Repo", "Contributors"} ->
            refresh_current_view_data(previous_view, current_scrape, Loading, 0, ok)
      [] previous_view = "OrgDetail" /\ current_scrape # None ->
            IF ok
            THEN [data |-> OrgDetail(get_org_detail(db, current_scrape[1], context)),
                  sel |-> 0, res |-> "Ok"]
            ELSE [data |-> Loading, sel |-> 0, res |-> "Err"]
      [] previous_view = "RepoDetail" /\ current_scrape # None ->
            LET parts == split_slash(context) IN
            IF Len(parts) = 2
            THEN IF ok
                 THEN [data |-> RepoDetail(get_repo_detail(db, current_scrape[1],
                                                          parts[1], parts[2])),
                       sel |-> 0, res |-> "Ok"]
                 ELSE [data |-> Loading, sel |-> 0, res |-> "Err"]
            ELSE [data |-> Loading, sel |-> 0, res |-> "Ok"]
      [] OTHER -> [data |-> Loading, sel |-> 0, res |-> "Ok"]

\* navigate_back moving the selection to the first row when the history is empty
navigate_back_resets_selection(ok) ==
    IF view_history = <<>>
    THEN /\ selected_index' = 0
         /\ UNCHANGED <<current_view, data, view_history, shown>>
         /\ result' = "Ok"
    ELSE LET top == view_history[Len(view_history)]
             r == reload_previous(top[1], top[2], ok)
         IN /\ view_history' = SubSeq(view_history, 1, Len(view_history) - 1)
            /\ shown' = SubSeq(shown, 1, Len(shown) - 1)
            /\ current_view' = top[1]
            /\ selected_index' = 0
            /\ data' = IF r.res = "Ok" THEN apply_sort(r.data, sort_field, sort_order)
                       ELSE r.data
            /\ result' = r.res

\* App::navigate_back
navigate_back(ok) ==
    IF view_history = <<>>
    THEN /\ UNCHANGED <<current_view, data, selected_index, view_history, shown>>
         /\ result' = "Ok"
    ELSE LET top == view_history[Len(view_history)]
             r == reload_previous(top[1], top[2], ok)
         IN /\ view_history' = SubSeq(view_history, 1, Len(view_history) - 1)
            /\ shown' = SubSeq(shown, 1, Len(shown) - 1)
            /\ current_view' = top[1]
            /\ selected_index' = 0
            /\ data' = IF r.res = "Ok" THEN apply_sort(r.data, sort_field, sort_order)
                       ELSE r.data
            /\ result' = r.res

\* start_scraping leaving the request flag set
start_scraping_keeps_request ==
    /\ is_scraping' = TRUE
    /\ scraping_error' = None
    /\ start_scraping_requested' = start_scraping_requested

\* App::start_scraping
start_scraping ==
    /\ is_scraping' = TRUE
    /\ scraping_error' = None
    /\ start_scraping_requested' = FALSE

\* finish_scraping_success clearing the error and leaving the in-progress flag set
finish_scraping_success_keeps_flag ==
    /\ UNCHANGED is_scraping
    /\ scraping_error' = None

\* App::finish_scraping_success
finish_scraping_success ==
    /\ is_scraping' = FALSE
    /\ scraping_error' = None

\* finish_scraping_error leaving the in-progress flag set
finish_scraping_error_keeps_flag(error) ==
    /\ is_scraping' = is_scraping
    /\ scraping_error' = Some(error)

\* App::finish_scraping_error
finish_scraping_error(error) ==
    /\ is_scraping' = FALSE
    /\ scraping_error' = Some(error)

\* App::refresh_after_scrape: ok1 for the pool, the connection and list_all,
\* ok2 for refresh_current_view_data
refresh_after_scrape(ok1, ok2) ==
    IF ~ok1
    THEN /\ UNCHANGED <<scrapes, current_scrape, data, selected_index>>
         /\ result' = "Err"
    ELSE /\ scrapes' = Scrape_list_all(db)
         /\ IF scrapes' # <<>>
            THEN LET latest == scrapes'[1]
                     r == refresh_current_view_data(current_view, Some(latest.id), data,
                                                    selected_index, ok2)
                 IN /\ current_scrape' = Some(latest.id)
                    /\ data' = r.data
                    /\ selected_index' = r.sel
                    /\ result' = r.res
            ELSE /\ UNCHANGED <<current_scrape, data, selected_index>>
                 /\ result' = "Ok"

----------------------------------------------------------------------------
(* The render/input loop: render, poll one input, process the pending request *)

\* draw_main_content (app/ui.rs): the overlay while is_scraping, else the view
draw_main_content == IF is_scraping THEN "scraping_overlay" ELSE "content"

AfterAct == IF should_quit THEN "exit" ELSE "render"

Render ==
    /\ lp = "render"
    /\ lp' = "events"
    /\ screen' = draw_main_content
    /\ result' = "Ok"
    /\ UNCHANGED <<dbVars, appVars, inputs, shown>>

\* handle_events: a key press arrives within the poll interval
KeyEvent ==
    /\ lp = "events"
    /\ inputs < MaxInputs
    /\ \E key \in Keys :
          /\ key = "S" => Len(db.scrapes) < MaxScrapes
          /\ handle_key_event(key)
    /\ lp' = "act"
    /\ inputs' = inputs + 1
    /\ UNCHANGED <<dbVars, result, screen, shown>>

\* handle_events: the poll times out, or the event is no key press
NoEvent ==
    /\ lp = "events"
    /\ lp' = "act"
    /\ UNCHANGED <<dbVars, appVars, result, screen, inputs, shown>>

\* the input step calls App::request_drill_down
RequestDrillDown ==
    /\ lp = "events"
    /\ inputs < MaxInputs
    /\ request_drill_down
    /\ lp' = "act"
    /\ inputs' = inputs + 1
    /\ UNCHANGED <<dbVars, result, screen, shown>>

\* the input step calls App::request_navigate_back
RequestNavigateBack ==
    /\ lp = "events"
    /\ inputs < MaxInputs
    /\ request_navigate_back
    /\ lp' = "act"
    /\ inputs' = inputs + 1
    /\ UNCHANGED <<dbVars, result, screen, shown>>

\* no request is pending: the three handlers return Ok and change nothing
NoRequest ==
    /\ lp = "act"
    /\ pending_view_switch = None
    /\ ~start_scraping_requested
    /\ ~drill_down_requested
    /\ ~navigate_back_requested
    /\ lp' = AfterAct
    /\ UNCHANGED <<dbVars, appVars, result, screen, inputs, shown>>

HandlePendingViewSwitch ==
    /\ lp = "act"
    /\ pending_view_switch # None
    /\ \E ok \in BOOLEAN : handle_pending_view_switch(ok)
    /\ lp' = AfterAct
    /\ UNCHANGED <<dbVars, screen, inputs>>

\* App::handle_navigation_requests with drill_down_requested
HandleDrillDown ==
    /\ lp = "act"
    /\ drill_down_requested
    /\ drill_down_requested' = FALSE
    /\ \E ok \in BOOLEAN : drill_down(ok)
    /\ lp' = AfterAct
    /\ UNCHANGED <<dbVars, screen, inputs, current_scrape, scrapes, sortVars,
                   scrape_selected_index, scrapingVars, should_quit,
                   pending_view_switch, start_scraping_requested,
                   navigate_back_requested>>

\* App::handle_navigation_requests with navigate_back_requested
HandleNavigateBack ==
    /\ lp = "act"
    /\ navigate_back_requested
    /\ navigate_back_requested' = FALSE
    /\ \E ok \in BOOLEAN : navigate_back(ok)
    /\ lp' = AfterAct
    /\ UNCHANGED <<dbVars, screen, inputs, current_scrape, scrapes, sortVars,
                   scrape_selected_index, scrapingVars, should_quit,
                   pending_view_switch, start_scraping_requested,
                   drill_down_requested>>

\* App::handle_scraping_request, lines 517-521: start_scraping, then the call
\* of scraper::run_scrape, which blocks the loop until it returns
HandleScrapingRequest ==
    /\ lp = "act"
    /\ start_scraping_requested
    /\ start_scraping
    /\ run' = [IdleRun EXCEPT !.pc = "begin"]
    /\ lp' = "in_scrape"
    /\ UNCHANGED <<db, gh, clock, cfg, fed, navVars, sortVars, scrape_selected_index,
                   should_quit, pending_view_switch, drill_down_requested,
                   navigate_back_requested, result, screen, inputs, shown>>

\* App::handle_scraping_request, lines 521-530: run_scrape has returned
ScrapeReturn ==
    /\ lp = "in_scrape"
    /\ run.pc \in {"done", "failed"}
    /\ run' = IdleRun
    /\ IF run.pc = "done"
       THEN /\ finish_scraping_success
            /\ \E ok1, ok2 \in BOOLEAN : refresh_after_scrape(ok1, ok2)
       ELSE /\ finish_scraping_error("Scrape failed")
            /\ result' = "Ok"
            /\ UNCHANGED <<scrapes, current_scrape, data, selected_index>>
    /\ lp' = AfterAct
    /\ UNCHANGED <<db, gh, clock, cfg, fed, current_view, view_history, sortVars,
                   scrape_selected_index, should_quit, flagVars, screen, inputs,
                   shown>>

----------------------------------------------------------------------------
(* The upstream worlds and configurations the model draws from *)

ORG_A == <<"A">>
ORG_B == <<"B">>
REPO_R == <<"r">>
REPO_S == <<"s">>
AL == <<"a", "l">>
CY == <<"c", "y">>
BOT == <<"b", "o", "t">>

Commit(author) == [author |-> author]
Pr(user, merged_at, additions, deletions) ==
    [user |-> user, merged_at |-> merged_at, additions |-> additions,
     deletions |-> deletions]

\* organization A with repositories r and s on one page, B ignored by the
\* configuration; s has commits of an ignored user only
WorldA ==
    [orgs |-> <<ORG_A, ORG_B>>,
     pages |-> (ORG_A :> << <<REPO_R, REPO_S>> >>) @@ (ORG_B :> << <<REPO_R>> >>),
     commits |-> (<<ORG_A, REPO_R>> :> <<Commit(Some(AL)), Commit(Some(CY)), Commit(Some(AL))>>)
              @@ (<<ORG_A, REPO_S>> :> <<Commit(Some(BOT))>>)
              @@ (<<ORG_B, REPO_R>> :> <<Commit(Some(AL))>>),
     prs |-> (<<ORG_A, REPO_R>> :> <<Pr(Some(AL), None, Some(4), Some(4)),
                                     Pr(Some(CY), Some(6), Some(10), Some(5)),
                                     Pr(Some(AL), Some(3), Some(1), Some(1))>>)
          @@ (<<ORG_A, REPO_S>> :> <<Pr(Some(AL), Some(7), Some(2), None)>>)
          @@ (<<ORG_B, REPO_R>> :> <<>>)]

\* one repository whose listing (sorted by update time) shows a pull request
\* merged before the window ahead of one merged inside it, and a commit
\* without an author; the second repository has no commits but a merged PR
WorldB ==
    [orgs |-> <<ORG_A>>,
     pages |-> (ORG_A :> << <<REPO_R, REPO_S>> >>),
     commits |-> (<<ORG_A, REPO_R>> :> <<Commit(None), Commit(Some(AL))>>)
              @@ (<<ORG_A, REPO_S>> :> <<>>),
     prs |-> (<<ORG_A, REPO_R>> :> <<Pr(Some(AL), Some(3), Some(2), Some(2)),
                                     Pr(Some(CY), Some(6), Some(1), Some(0))>>)
          @@ (<<ORG_A, REPO_S>> :> <<Pr(Some(CY), Some(6), Some(3), Some(3))>>)]

Worlds == {WorldA, WorldB}

Config == [ignored_org_pattern |-> ORG_B, ignored_user_patterns |-> BOT]

----------------------------------------------------------------------------
(* The orchestrator run on its own: run_scrape called on an empty store *)

\* run_scrape is called
Invoke ==
    /\ run.pc = "idle"
    /\ Len(db.scrapes) < MaxScrapes
    /\ run' = [IdleRun EXCEPT !.pc = "begin"]
    /\ UNCHANGED <<db, gh, clock, cfg, fed, appVars, loopVars>>

\* run_scrape returning Err after deleting what the failed run had written
Return_rolling_back ==
    /\ lp = "off"
    /\ run.pc \in {"done", "failed"}
    /\ run' = [run EXCEPT !.pc = "idle"]
    /\ result' = IF run.pc = "done" THEN "Ok" ELSE "Err"
    /\ db' = IF run.pc = "failed"
             THEN [db EXCEPT !.repo_scrapes =
                                SelectSeq(@, LAMBDA r : r.scrape_id # run.scrape_id)]
             ELSE db
    /\ UNCHANGED <<gh, clock, cfg, fed, appVars, lp, screen, inputs, shown>>

\* run_scrape returns Ok(()) or Err
Return ==
    /\ lp = "off"
    /\ run.pc \in {"done", "failed"}
    /\ run' = [run EXCEPT !.pc = "idle"]
    /\ result' = IF run.pc = "done" THEN "Ok" ELSE "Err"
    /\ UNCHANGED <<db, gh, clock, cfg, fed, appVars, lp, screen, inputs, shown>>

\* App::default
AppDefault ==
    /\ current_view = "Org"
    /\ current_scrape = None
    /\ scrapes = <<>>
    /\ data = Loading
    /\ sort_order = "Descending"
    /\ sort_field = "Commits"
    /\ selected_index = 0
    /\ scrape_selected_index = 0
    /\ should_quit = FALSE
    /\ is_scraping = FALSE
    /\ scraping_error = None
    /\ pending_view_switch = None
    /\ start_scraping_requested = FALSE
    /\ drill_down_requested = FALSE
    /\ navigate_back_requested = FALSE
    /\ view_history = <<>>

InitScrape ==
    /\ db = EmptyDb
    /\ gh \in Worlds
    /\ clock = 10
    /\ cfg = Config
    /\ run = IdleRun
    /\ AppDefault
    /\ lp = "off"
    /\ result = "Ok"
    /\ screen = "none"
    /\ inputs = 0
    /\ shown = <<>>
    /\ fed = <<>>

NextScrape ==
    \/ Invoke
    \/ RunBegin
    \/ NextOrg
    \/ NextPage
    \/ NextRepo
    \/ FetchPrs
    \/ SaveRepoScrape
    \/ SaveContributor
    \/ Return

SpecScrape == InitScrape /\ [][NextScrape]_vars

----------------------------------------------------------------------------
(* The orchestrator run on an organization whose repositories fill a page *)

\* PER_PAGE - 1 repositories without commits in the window, named aa .. oo
FillerPage ==
    LET L == <<"a", "b", "c", "l", "m", "n", "o">> IN
    [i \in 1..(PER_PAGE - 1) |-> <<L[((i - 1) \div 7) + 1], L[((i - 1) % 7) + 1]>>]

Fillers == Range(FillerPage)

\* organization A lists PER_PAGE repositories on its first page, r the last of
\* them; the listing is sorted by update time, a repository was updated between
\* the two requests, and r is served again as the first of the second page
WorldC ==
    [orgs |-> <<ORG_A>>,
     pages |-> (ORG_A :> <<FillerPage \o <<REPO_R>>, <<REPO_R>>>>),
     commits |-> [k \in {<<ORG_A, n>> : n \in Fillers \cup {REPO_R}} |->
                     IF k[2] = REPO_R THEN <<Commit(Some(AL))>> ELSE <<>>],
     prs |-> [k \in {<<ORG_A, n>> : n \in Fillers \cup {REPO_R}} |->
                 IF k[2] = REPO_R THEN <<Pr(Some(AL), Some(6), Some(2), Some(1))>>
                 ELSE <<>>]]

InitPaging ==
    /\ db = EmptyDb
    /\ gh = WorldC
    /\ clock = 10
    /\ cfg = Config
    /\ run = IdleRun
    /\ AppDefault
    /\ lp = "off"
    /\ result = "Ok"
    /\ screen = "none"
    /\ inputs = 0
    /\ shown = <<>>
    /\ fed = <<>>

SpecPaging == InitPaging /\ [][NextScrape]_vars

\* run_scrape is one sequential task: once called, it keeps taking its steps
SpecPagingFair == SpecPaging /\ WF_vars(NextScrape)

----------------------------------------------------------------------------
(* One Aggregator fed record by record, then persisted *)

\* a configuration whose user ignore pattern finds the "anonymous" sentinel
ConfigAnon == [ignored_org_pattern |-> ORG_B, ignored_user_patterns |-> <<"a", "n", "o", "n">>]

Configs == {Config, ConfigAnon}

\* the commits fed: with and without an author, by an ignored user
CommitInputs == {Commit(a) : a \in {None, Some(AL), Some(BOT)}}

\* the pull requests fed: with and without a user, by an ignored user, with
\* and without a deletions count
PrInputs ==
    {Pr(u, Some(5), Some(2), None) : u \in {None, Some(AL), Some(BOT)}}
    \cup {Pr(u, Some(5), Some(3), Some(1)) : u \in {None, Some(AL), Some(BOT)}}

\* an entry of the history fed
Fed(kind, author, additions, deletions) ==
    [kind |-> kind, author |-> author, additions |-> additions, deletions |-> deletions]

\* temp_repo_scrape.process_commit(&commit, &user_ignore_regex)
RecordCommit ==
    /\ run.pc = "feed"
    /\ Len(fed) < MaxFed
    /\ \E commit \in CommitInputs :
          /\ run' = [run EXCEPT !.temp = process_commit(@, commit,
                                                        cfg.ignored_user_patterns)]
          /\ fed' = Append(fed, Fed("commit", commit.author, None, None))
    /\ UNCHANGED <<db, gh, clock, cfg, appVars, loopVars>>

\* temp_repo_scrape.process_pr(&pr, &user_ignore_regex)
RecordPr ==
    /\ run.pc = "feed"
    /\ Len(fed) < MaxFed
    /\ \E pr \in PrInputs :
          /\ run' = [run EXCEPT !.temp = process_pr(@, pr, cfg.ignored_user_patterns)]
          /\ fed' = Append(fed, Fed("pr", pr.user, pr.additions, pr.deletions))
    /\ UNCHANGED <<db, gh, clock, cfg, appVars, loopVars>>

\* the loops over the records end; RepoScrape::create comes next
FeedDone ==
    /\ run.pc = "feed"
    /\ run' = [run EXCEPT !.pc = "save_repo"]
    /\ UNCHANGED <<db, gh, clock, cfg, fed, appVars, loopVars>>

\* run_scrape at line 127 for repository r of organization A: the snapshot,
\* the organization and the repository rows exist, the Aggregator is fresh
InitAgg ==
    /\ db = Repo_create(Org_create(Scrape_create(EmptyDb, 4, 11)[1], ORG_A)[1], REPO_R, 1)[1]
    /\ gh = WorldA
    /\ clock = 11
    /\ cfg \in Configs
    /\ run = [IdleRun EXCEPT !.pc = "feed", !.scrape_id = 1, !.start_time = 4,
                             !.org = ORG_A, !.db_org = 1, !.repo = REPO_R, !.db_repo = 1,
                             !.page = 1, !.results_count = 1]
    /\ AppDefault
    /\ lp = "off"
    /\ result = "Ok"
    /\ screen = "none"
    /\ inputs = 0
    /\ shown = <<>>
    /\ fed = <<>>

NextAgg ==
    \/ RecordCommit
    \/ RecordPr
    \/ FeedDone
    \/ SaveRepoScrape
    \/ SaveContributor

SpecAgg == InitAgg /\ [][NextAgg]_vars

----------------------------------------------------------------------------
(* The orchestrator run under the configuration file's patterns and under the
   defaults confy writes when there is no file *)

\* impl Default for AppConfig: every ignore pattern is the empty string
AppConfig_default == [ignored_org_pattern |-> <<>>, ignored_user_patterns |-> <<>>]

\* run_scrape is called on an empty store
InitConfig ==
    /\ db = EmptyDb
    /\ gh \in Worlds
    /\ clock = 10
    /\ cfg \in {Config, AppConfig_default}
    /\ run = IdleRun
    /\ AppDefault
    /\ lp = "off"
    /\ result = "Ok"
    /\ screen = "none"
    /\ inputs = 0
    /\ shown = <<>>
    /\ fed = <<>>

SpecConfig == InitConfig /\ [][NextScrape]_vars

----------------------------------------------------------------------------
(* The dashboard started on the store a completed run left *)

\* the store after one run_scrape over WorldA that returned Ok on day 11
\* (reachable under SpecScrape)
StoreA ==
    [orgs |-> <<ORG_A>>,
     repos |-> <<[name |-> REPO_R, org_id |-> 1], [name |-> REPO_S, org_id |-> 1]>>,
     contributors |-> <<AL, CY>>,
     scrapes |-> <<[start_dt |-> 4, end_dt |-> 11]>>,
     repo_scrapes |->
        <<[scrape_id |-> 1, org_id |-> 1, repo_id |-> 1, commits |-> 3, prs |-> 1,
           lines |-> 15],
          [scrape_id |-> 1, org_id |-> 1, repo_id |-> 2, commits |-> 0, prs |-> 1,
           lines |-> 2]>>,
     contributor_scrapes |->
        <<[repo_scrape_id |-> 1, contributor_id |-> 1, commits |-> 2, lines |-> 0],
          [repo_scrape_id |-> 1, contributor_id |-> 2, commits |-> 1, lines |-> 15],
          [repo_scrape_id |-> 2, contributor_id |-> 1, commits |-> 0, lines |-> 2]>>]

\* App::new_with_data returning Ok(app)
new_with_data ==
    LET latest == Scrape_get_latest(db) IN
    /\ current_view = "Org"
    /\ scrapes = Scrape_list_all(db)
    /\ IF latest # None
       THEN /\ current_scrape = Some(latest[1].id)
            /\ scrape_selected_index =
                  IF \E i \in 1..Len(scrapes) : scrapes[i].id = latest[1].id
                  THEN (CHOOSE i \in 1..Len(scrapes) :
                            /\ scrapes[i].id = latest[1].id
                            /\ \A j \in 1..(i - 1) : scrapes[j].id # latest[1].id) - 1
                  ELSE 0
            /\ data = Orgs(get_org_stats(db, latest[1].id))
       ELSE /\ current_scrape = None
            /\ scrape_selected_index = 0
            /\ data = Error("No scrape data available. Run a scrape first.")
    /\ sort_order = "Descending"
    /\ sort_field = "Commits"
    /\ selected_index = 0
    /\ should_quit = FALSE
    /\ is_scraping = FALSE
    /\ scraping_error = None
    /\ pending_view_switch = None
    /\ start_scraping_requested = FALSE
    /\ drill_down_requested = FALSE
    /\ navigate_back_requested = FALSE
    /\ view_history = <<>>

Init ==
    /\ db = StoreA
    /\ gh = WorldA
    /\ clock = 11
    /\ cfg = Config
    /\ run = IdleRun
    /\ new_with_data
    /\ lp = "render"
    /\ result = "Ok"
    /\ screen = "none"
    /\ inputs = 0
    /\ shown = <<>>
    /\ fed = <<>>

Next ==
    \/ Render
    \/ KeyEvent
    \/ NoEvent
    \/ RequestDrillDown
    \/ RequestNavigateBack
    \/ NoRequest
    \/ HandlePendingViewSwitch
    \/ HandleDrillDown
    \/ HandleNavigateBack
    \/ HandleScrapingRequest
    \/ RunBegin
    \/ NextOrg
    \/ NextPage
    \/ NextRepo
    \/ FetchPrs
    \/ SaveRepoScrape
    \/ SaveContributor
    \/ ScrapeReturn

Spec == Init /\ [][Next]_vars

ORG_AA == <<"A", "a">>

\* the store a completed run left when the user belonged to organizations A and
\* Aa: the organization observed first has the fewer commits
StoreB ==
    [orgs |-> <<ORG_A, ORG_AA>>,
     repos |-> <<[name |-> REPO_R, org_id |-> 1], [name |-> REPO_R, org_id |-> 2]>>,
     contributors |-> <<AL>>,
     scrapes |-> <<[start_dt |-> 4, end_dt |-> 11]>>,
     repo_scrapes |->
        <<[scrape_id |-> 1, org_id |-> 1, repo_id |-> 1, commits |-> 1, prs |-> 0,
           lines |-> 0],
          [scrape_id |-> 1, org_id |-> 2, repo_id |-> 2, commits |-> 3, prs |-> 0,
           lines |-> 0]>>,
     contributor_scrapes |->
        <<[repo_scrape_id |-> 1, contributor_id |-> 1, commits |-> 1, lines |-> 0],
          [repo_scrape_id |-> 2, contributor_id |-> 1, commits |-> 3, lines |-> 0]>>]

\* the process start: App::new_with_data has returned, Ok(app) or Err, on a
\* store that holds no snapshot yet or the one a completed run left; ok says
\* whether the pool, the connection and the queries succeeded
InitStart ==
    /\ db \in {EmptyDb, StoreA, StoreB}
    /\ gh = WorldA
    /\ clock = 11
    /\ cfg = Config
    /\ run = IdleRun
    /\ \E ok \in BOOLEAN :
          IF ok THEN new_with_data /\ result = "Ok" /\ lp = "render"
          ELSE AppDefault /\ result = "Err" /\ lp = "exit"
    /\ screen = "none"
    /\ inputs = 0
    /\ shown = <<>>
    /\ fed = <<>>

SpecStart == InitStart /\ [][Next]_vars

\* the loop processes at most one pending request per iteration
AtMostOneRequest ==
    Cardinality({f \in {"view", "scrape", "drill", "back"} :
        \/ f = "view" /\ pending_view_switch # None
        \/ f = "scrape" /\ start_scraping_requested
        \/ f = "drill" /\ drill_down_requested
        \/ f = "back" /\ navigate_back_requested}) <= 1

----------------------------------------------------------------------------
(* Properties *)

\* the views a drill-down starts from
DrillViews == {"Org", "Repo", "Contributors", "OrgDetail", "RepoDetail"}

\* the rows a fresh load of the view of history entry e (view, tag, key as shown
\* when it was pushed) reads from the snapshot scrape_id
FreshRows(e, scrape_id) ==
    CASE e.view = "Org" -> Range(get_org_stats(db, scrape_id))
      [] e.view = "Repo" -> Range(get_repo_stats(db, scrape_id))
      [] e.view = "Contributors" -> Range(get_contributor_stats(db, scrape_id))
      [] e.view = "OrgDetail" -> Range(get_org_detail(db, scrape_id, e.key[1]).repos)
      [] e.view = "RepoDetail" ->
            Range(get_repo_detail(db, scrape_id, e.key[1], e.key[2]).contributors)
      [] OTHER -> {}

\* C1: a back-navigation that pops an entry pushed by a drill-down from a list
\* view, Organization Detail or Repository Detail (queries succeeding) makes
\* that view current again, with data of the same variant, of the same
\* organization or repository as was shown at the drill-down, and holding the
\* rows a fresh load from the current snapshot gives.
C1_DrillThenBackRestores ==
    [][(/\ lp = "act"
        /\ navigate_back_requested
        /\ view_history # <<>>
        /\ shown[Len(shown)].view \in DrillViews
        /\ shown[Len(shown)].view = view_history[Len(view_history)][1]
        /\ current_scrape # None
        /\ result' = "Ok")
       => LET e == shown[Len(shown)] IN
          /\ current_view' = e.view
          /\ data'.tag = e.tag
          /\ data'.key = e.key
          /\ Range(data'.rows) = FreshRows(e, current_scrape[1])]_vars

\* the repo_scrapes rows of snapshot scrape_id whose organization is named name
RsOfOrg(d, scrape_id, name) ==
    {r \in RsOf(d, scrape_id) : d.orgs[d.repo_scrapes[r].org_id] = name}

\* C2: in every store state, for every snapshot and every row of its
\* organization rollup, total_commits is the sum of commits and total_lines the
\* sum of lines over that organization's repo_scrapes rows of the snapshot.
C2_OrgRollupSums ==
    \A s \in 1..Len(db.scrapes) :
        LET stats == get_org_stats(db, s) IN
        \A i \in 1..Len(stats) :
            LET R == RsOfOrg(db, s, stats[i].name) IN
            /\ stats[i].total_commits = SumOver(R, [r \in R |-> db.repo_scrapes[r].commits])
            /\ stats[i].total_lines = SumOver(R, [r \in R |-> db.repo_scrapes[r].lines])

\* C3: the step that fetches a repository's pull requests never ends the run
\* Failed (a failed fetch skips the repository and the run goes on).
C3_FetchFailureNeverAborts ==
    [][run.pc = "prs" => run'.pc # "failed"]_vars

\* the number of commits the upstream returns for a repository whose author the
\* user ignore pattern does not find
AcceptedCommits(org, repo) ==
    Cardinality({i \in 1..Len(gh.commits[<<org, repo>>]) :
        ~regex_find(cfg.ignored_user_patterns,
                    author_login(gh.commits[<<org, repo>>][i].author))})

\* C4: every repo_scrapes row in the store is of a repository with at least one
\* accepted (non-ignored) commit upstream.
C4_NoRowWithoutAcceptedCommits ==
    \A r \in 1..Len(db.repo_scrapes) :
        AcceptedCommits(db.orgs[db.repo_scrapes[r].org_id],
                        db.repos[db.repo_scrapes[r].repo_id].name) > 0

\* C5: when handle_scraping_request returns Ok after a run that succeeded, the
\* snapshot list is the store's, current_scrape is the latest snapshot, the
\* current view is the Organization List and data holds that snapshot's
\* organization rollup.
C5_SuccessfulRunShowsLatestOrgs ==
    [][(lp = "in_scrape" /\ run.pc = "done" /\ lp' # "in_scrape" /\ result' = "Ok")
       => /\ scrapes' = Scrape_list_all(db)
          /\ current_scrape' = Some(Scrape_get_latest(db)[1].id)
          /\ current_view' = "Org"
          /\ data'.tag = "Orgs"
          /\ Range(data'.rows) = Range(get_org_stats(db, Scrape_get_latest(db)[1].id))]_vars

\* C6: no step taken while is_scraping sets start_scraping_requested, and
\* run_scrape is entered only when no invocation is in flight and the
\* in-progress flag is clear (and sets it).
C6_SingleFlight ==
    [][/\ (is_scraping => ~start_scraping_requested')
       /\ (run'.pc = "begin" /\ run.pc # "begin"
             => run.pc = "idle" /\ ~is_scraping /\ is_scraping')]_vars

\* a run requested from the dashboard is in flight
C6_RunInFlight ==
    /\ is_scraping
    /\ lp = "in_scrape"
    /\ run.pc \notin {"idle", "begin", "done", "failed"}

\* C7: whenever run_scrape has just been entered from the dashboard, the last
\* render drew the in-progress overlay (it observed is_scraping = TRUE).
C7_RenderedBeforeBlocking ==
    (lp = "in_scrape" /\ run.pc = "begin") => screen = "scraping_overlay"

C9_ExactlyMergedInWindowFed ==
    run.pc = "save_repo"
    => run.repo_prs =
          SelectSeq(gh.prs[<<run.org, run.repo>>],
                    LAMBDA p : p.merged_at # None /\ p.merged_at[1] >= run.start_time)

\* C10: when a run has ended, the repo_scrapes row it wrote last has a
\* contributor_scrapes row for every contributor of the Aggregator output it
\* was written from.
C10_SnapshotPersistedAsUnit ==
    (run.pc \in {"done", "failed"} /\ run.repo_scrape # 0)
    => \A u \in DOMAIN run.temp.contributors :
          \E c \in CsOf(db, run.repo_scrape) :
              db.contributors[db.contributor_scrapes[c].contributor_id] = u

\* C11: when a run has ended Succeeded, every repo_scrapes row of its snapshot
\* has commits equal to the sum of commits, and lines equal to the sum of
\* lines, over the contributor_scrapes rows attached to it.
C11_RepoRowSumsItsContributors ==
    run.pc = "done"
    => \A r \in RsOf(db, run.scrape_id) :
          LET S == CsOf(db, r) IN
          /\ db.repo_scrapes[r].commits =
                SumOver(S, [c \in S |-> db.contributor_scrapes[c].commits])
          /\ db.repo_scrapes[r].lines =
                SumOver(S, [c \in S |-> db.contributor_scrapes[c].lines])

\* a run has succeeded and wrote a row with lines and two contributors
C11_SucceededWithContributors ==
    /\ run.pc = "done"
    /\ \E r \in RsOf(db, run.scrape_id) :
          /\ db.repo_scrapes[r].lines > 0
          /\ db.repo_scrapes[r].commits > 0
          /\ Cardinality(CsOf(db, r)) = 2

\* a fed record whose author (or the "anonymous" sentinel) the user ignore
\* pattern does not find
Accepted(rec) == ~regex_find(cfg.ignored_user_patterns, author_login(rec.author))

\* the accepted records of a kind in the history fed
AcceptedFed(kind) == {i \in 1..Len(fed) : fed[i].kind = kind /\ Accepted(fed[i])}

\* additions + deletions of a fed pull request, a missing value counting 0
LinesOf(rec) ==
    (IF rec.additions = None THEN 0 ELSE rec.additions[1])
    + (IF rec.deletions = None THEN 0 ELSE rec.deletions[1])

\* C12: whatever was fed to the Aggregator, its commit counter is the number of
\* accepted commits, its PR counter the number of accepted pull requests and
\* its line counter the sum of additions + deletions over the accepted pull
\* requests; and the repo_scrapes row written from it holds these values.
C12_CountersMatchFed ==
    LET commits == Cardinality(AcceptedFed("commit"))
        prs == Cardinality(AcceptedFed("pr"))
        lines == SumOver(AcceptedFed("pr"),
                         [i \in AcceptedFed("pr") |-> LinesOf(fed[i])])
    IN /\ run.temp.total_commits = commits
       /\ run.temp.total_prs = prs
       /\ run.temp.total_lines = lines
       /\ run.repo_scrape # 0
             => /\ db.repo_scrapes[run.repo_scrape].commits = commits
                /\ db.repo_scrapes[run.repo_scrape].prs = prs
                /\ db.repo_scrapes[run.repo_scrape].lines = lines

\* a row was written from an Aggregator fed an ignored commit, an accepted
\* commit and an accepted pull request without a deletions count
C12_RowWrittenFromMixedFeed ==
    /\ run.repo_scrape # 0
    /\ \E i, j, k \in 1..Len(fed) :
          /\ fed[i].kind = "commit" /\ ~Accepted(fed[i])
          /\ fed[j].kind = "commit" /\ Accepted(fed[j])
          /\ fed[k].kind = "pr" /\ Accepted(fed[k]) /\ fed[k].deletions = None

\* C13: recording a commit or pull request whose author (or the "anonymous"
\* sentinel) matches the ignore pattern leaves the Aggregator as it was:
\* counters and contributor map, key set included.
C13_IgnoredRecordChangesNothing ==
    [][(Len(fed') = Len(fed) + 1 /\ ~Accepted(fed'[Len(fed')]))
       => run'.temp = run.temp]_vars

\* records without an author were ignored as "anonymous", after an accepted one
C13_AnonymousIgnored ==
    /\ Len(fed) = 3
    /\ Accepted(fed[1])
    /\ fed[2].kind = "commit" /\ fed[2].author = None /\ ~Accepted(fed[2])
    /\ fed[3].kind = "pr" /\ fed[3].author = None /\ ~Accepted(fed[3])

\* C14: an accepted commit changes no PR or line counter, of the repository or
\* of any contributor (a new entry starts with lines 0); an accepted pull
\* request changes no commit counter (a new entry starts with commits 0).
C14_DisjointCounters ==
    [][(Len(fed') = Len(fed) + 1 /\ Accepted(fed'[Len(fed')]))
       => LET old == run.temp.contributors
              new == run'.temp.contributors
          IN IF fed'[Len(fed')].kind = "commit"
             THEN /\ run'.temp.total_prs = run.temp.total_prs
                  /\ run'.temp.total_lines = run.temp.total_lines
                  /\ \A u \in DOMAIN new :
                        new[u].lines = IF u \in DOMAIN old THEN old[u].lines ELSE 0
             ELSE /\ run'.temp.total_commits = run.temp.total_commits
                  /\ \A u \in DOMAIN new :
                        new[u].commits = IF u \in DOMAIN old THEN old[u].commits ELSE 0]_vars

\* one contributor has both commits and lines, another entry was created by a
\* pull request alone
C14_BothKindsAccepted ==
    /\ Len(fed) = 3
    /\ \E u, v \in DOMAIN run.temp.contributors :
          /\ run.temp.contributors[u].commits > 0
          /\ run.temp.contributors[u].lines > 0
          /\ run.temp.contributors[v].commits = 0
          /\ run.temp.contributors[v].lines > 0

\* C15: a step of the input handler that is set_sort_field(f): when f is the
\* active field the order is flipped once and the field stays; when f differs
\* the field becomes f and the order Descending; the selected index is 0 after
\* either; and the rows are those of the data in the new field and order.
C15_SetSortField ==
    [][\A f \in SortFields :
          (lp = "events" /\ set_sort_field(f))
          => /\ sort_field' = f
             /\ sort_field = f => /\ sort_order' # sort_order
                                  /\ sort_order' = Flip(sort_order)
             /\ sort_field # f => sort_order' = "Descending"
             /\ selected_index' = 0
             /\ data' = apply_sort(data', f, sort_order')]_vars

\* the active field was selected again after moving the selection: the order
\* is Ascending, on a field that is not the initial one, with the first row
\* selected
C15_FieldSelectedTwice ==
    /\ lp = "act"
    /\ sort_field = "Name"
    /\ sort_order = "Ascending"
    /\ selected_index = 0
    /\ Len(data.rows) = 2

\* C16: for the rows the dashboard holds (rows with equal sort keys included),
\* every sort field and every order, apply_sort applied twice gives the row
\* order apply_sort applied once gives.
C16_SortIdempotent ==
    \A f \in SortFields : \A o \in {"Ascending", "Descending"} :
        apply_sort(apply_sort(data, f, o), f, o) = apply_sort(data, f, o)

\* the view holds two rows with equal keys in the active sort field (sorting
\* them in either order gives the same rows), after a sort by that field
C16_TiedRowsSorted ==
    /\ lp = "act"
    /\ Len(data.rows) = 2
    /\ sort_field # "Commits"
    /\ apply_sort(data, sort_field, "Ascending") = apply_sort(data, sort_field, "Descending")

\* C17: a step of the input handler that is toggle_sort_order, taken from rows
\* sorted by the active field and order: toggling once more gives back the
\* sort order and the row order the step started from, rows with equal sort
\* keys included.
C17_ToggleTwiceRestores ==
    [][(/\ lp = "events"
        /\ toggle_sort_order
        /\ data = apply_sort(data, sort_field, sort_order))
       => /\ sort_order' = Flip(sort_order)
          /\ sort_order' # sort_order
          /\ Flip(sort_order') = sort_order
          /\ sort_field' = sort_field
          /\ data' = apply_sort(data, sort_field, sort_order')
          /\ apply_sort(data', sort_field', Flip(sort_order')) = data]_vars

\* the order is back to Descending after the fourth key, on two repository rows
\* with equal keys in the active field
C17_ToggledBackOnTiedRows ==
    /\ lp = "act"
    /\ inputs = 4
    /\ current_view = "Repo"
    /\ sort_field = "Prs"
    /\ sort_order = "Descending"
    /\ Len(data.rows) = 2
    /\ data.rows[1].prs = data.rows[2].prs

\* C18: with n the row count of the data held: a step of the input handler that
\* is move_selection_down takes index i to (i + 1) mod n, one that is
\* move_selection_up takes i to (i - 1) mod n, when n > 0; when n = 0 (no rows,
\* Loading or Error) either leaves the index unchanged.
C18_SelectionWraps ==
    [][LET n == Len(data.rows)
           i == selected_index
       IN /\ (lp = "events" /\ move_selection_down)
                => selected_index' = IF n > 0 THEN (i + 1) % n ELSE i
          /\ (lp = "events" /\ move_selection_up)
                => selected_index' = IF n > 0 THEN (i + n - 1) % n ELSE i]_vars

\* the second key moved the selection to the last of the two repository rows
C18_SecondRowSelected ==
    /\ lp = "act"
    /\ inputs = 2
    /\ current_view = "Repo"
    /\ Len(data.rows) = 2
    /\ selected_index = 1

\* C19: a step of handle_navigation_requests that serves a navigate-back
\* request: with an empty history the current view, the data, the selected
\* index, the sort field and order, current_scrape and the (empty) history are
\* unchanged; with a non-empty history exactly the entry pushed last is popped
\* and its view becomes the current view.
C19_BackOnEmptyIsNoOp ==
    [][(lp = "act" /\ navigate_back_requested /\ ~navigate_back_requested')
       => IF view_history = <<>>
          THEN UNCHANGED <<current_view, data, selected_index, sort_field, sort_order,
                           current_scrape, view_history>>
          ELSE /\ view_history' = SubSeq(view_history, 1, Len(view_history) - 1)
               /\ current_view' = view_history[Len(view_history)][1]]_vars

\* a navigate-back request is being served with an empty history while the
\* second of two rows is selected
C19_BackServedOnEmptyHistory ==
    /\ lp = "act"
    /\ navigate_back_requested
    /\ view_history = <<>>
    /\ Len(data.rows) = 2
    /\ selected_index = 1
    /\ sort_order = "Ascending"

\* C20: a step of handle_pending_view_switch that serves the Snapshot Picker's
\* activation (Organization List pending, a row highlighted): current_scrape
\* becomes the highlighted snapshot's id, the current view Organization List
\* and the selected index 0; and when the store query succeeds the data are
\* the organization rollup of that snapshot in the active sort.
C20_PickerSelectsSnapshot ==
    [][(/\ lp = "act"
        /\ InPicker
        /\ pending_view_switch = Some("Org")
        /\ pending_view_switch' = None
        /\ scrape_selected_index < Len(scrapes))
       => LET id == scrapes[scrape_selected_index + 1].id IN
          /\ current_scrape' = Some(id)
          /\ current_view' = "Org"
          /\ selected_index' = 0
          /\ result' = "Ok"
                => data' = apply_sort(Orgs(get_org_stats(db, id)), sort_field, sort_order)]_vars

\* a snapshot other than the latest of two was picked and its rollup is shown
C20_OlderSnapshotPicked ==
    /\ lp = "render"
    /\ Len(scrapes) = 2
    /\ current_view = "Org"
    /\ current_scrape # None
    /\ current_scrape # Some(scrapes[1].id)
    /\ data = apply_sort(Orgs(get_org_stats(db, current_scrape[1])), sort_field, sort_order)

\* the natural key of a row of data with the given tag, as a context string
RowContext(tag, row) ==
    CASE tag = "Orgs" -> row.name
      [] tag \in {"Repos", "OrgDetail"} -> format_slash(row.org_name, row.repo_name)
      [] tag \in {"Contributors", "RepoDetail"} -> row.username

\* the detail data a fresh load for a row of data with the given tag gives
RowDetail(tag, row, scrape_id) ==
    CASE tag = "Orgs" -> OrgDetail(get_org_detail(db, scrape_id, row.name))
      [] tag \in {"Repos", "OrgDetail"} ->
            RepoDetail(get_repo_detail(db, scrape_id, row.org_name, row.repo_name))
      [] tag \in {"Contributors", "RepoDetail"} ->
            ContributorDetail(get_contributor_detail(db, scrape_id, row.username))

\* the Detail view matching a row of data with the given tag
RowDetailView(tag) ==
    CASE tag = "Orgs" -> "OrgDetail"
      [] tag \in {"Repos", "OrgDetail"} -> "RepoDetail"
      [] tag \in {"Contributors", "RepoDetail"} -> "ContributorDetail"

\* C21: a step of handle_navigation_requests that serves a drill-down request
\* on a selected organization, repository or contributor row (a snapshot being
\* current and the store query succeeding) appends exactly the entry (current
\* view, the row's natural key) to the history and makes the matching Detail
\* view current, with that row's detail loaded in the active sort and selected
\* index 0; and while a collection run is in progress (is_scraping before and
\* after a step) the view, the data, the selection and the history do not change.
C21_DrillDownPushesAndEnters ==
    [][/\ (/\ lp = "act"
           /\ drill_down_requested
           /\ ~drill_down_requested'
           /\ ~is_scraping
           /\ current_scrape # None
           /\ data.tag \in {"Orgs", "Repos", "Contributors", "OrgDetail", "RepoDetail"}
           /\ selected_index < Len(data.rows)
           /\ result' = "Ok")
          => LET row == data.rows[selected_index + 1] IN
             /\ view_history' = Append(view_history,
                                       <<current_view, RowContext(data.tag, row)>>)
             /\ current_view' = RowDetailView(data.tag)
             /\ data' = apply_sort(RowDetail(data.tag, row, current_scrape[1]),
                                   sort_field, sort_order)
             /\ selected_index' = 0
       /\ (is_scraping /\ is_scraping')
          => UNCHANGED <<current_view, data, selected_index, view_history>>]_vars

\* a second drill-down, from the second row of an Organization Detail, was
\* served: Repository Detail is current and the history holds two entries
C21_DrilledTwice ==
    /\ lp = "render"
    /\ current_view = "RepoDetail"
    /\ Len(view_history) = 2
    /\ view_history[1] = <<"Org", ORG_A>>
    /\ view_history[2][1] = "OrgDetail"
    /\ data.key = <<ORG_A, REPO_S>>
    /\ selected_index = 0

\* C22: a step of the action-processing handlers that loads a view (a pending
\* view switch or snapshot selection, a drill-down, a back-navigation) never
\* returns the failure of a store query to the loop, and when the query failed
\* it leaves the Error state carrying a message as the data, not Loading.
C22_QueryFailureBecomesError ==
    [][(/\ lp = "act"
        /\ \/ pending_view_switch # None
           \/ drill_down_requested
           \/ navigate_back_requested)
       => /\ result' = "Ok"
          /\ result' = "Err" => (data'.tag = "Error" /\ data'.msg # "")]_vars

\* C23: while the store holds no snapshot the interactive loop is not running:
\* initialisation on such a store has returned a failure and the process is at
\* its exit.
C23_NoSnapshotIsFatal ==
    db.scrapes = <<>> => (lp = "exit" /\ result = "Err")

\* C24: in every store state no two repo_scrapes rows have the same snapshot
\* and the same repository, also when the listing serves a repository on two
\* pages of one run.
C24_OneRowPerSnapshotAndRepo ==
    \A r1, r2 \in 1..Len(db.repo_scrapes) :
        (/\ db.repo_scrapes[r1].scrape_id = db.repo_scrapes[r2].scrape_id
         /\ db.repo_scrapes[r1].repo_id = db.repo_scrapes[r2].repo_id)
        => r1 = r2

\* no two rows of a table are equal
NoDuplicate(table) ==
    \A i, j \in 1..Len(table) : table[i] = table[j] => i = j

\* C25: after any sequence of collection runs no two orgs rows share a name, no
\* two repos rows share (name, org_id) and no two contributors rows share a
\* username; and the id a run holds for the organization or repository it is
\* processing, and the contributor id of every contributor_scrapes row, is the
\* id of the one row with that natural key.
C25_EntitiesNeverDuplicated ==
    /\ NoDuplicate(db.orgs)
    /\ NoDuplicate(db.repos)
    /\ NoDuplicate(db.contributors)
    /\ run.pc \in {"page_loop", "repo_loop", "prs", "save_repo", "contributors"}
          => /\ run.db_org \in 1..Len(db.orgs)
             /\ db.orgs[run.db_org] = run.org
    /\ run.pc \in {"prs", "save_repo", "contributors"}
          => /\ run.db_repo \in 1..Len(db.repos)
             /\ db.repos[run.db_repo] = [name |-> run.repo, org_id |-> run.db_org]
    /\ \A c \in 1..Len(db.contributor_scrapes) :
          db.contributor_scrapes[c].contributor_id \in 1..Len(db.contributors)

\* a second run has ended after writing rows for an organization, a repository
\* and contributors the first run had already observed
C25_SecondRunReobserved ==
    /\ Len(db.scrapes) = 2
    /\ run.pc = "done"
    /\ RsOf(db, 1) # {}
    /\ RsOf(db, 2) # {}
    /\ \E c1, c2 \in 1..Len(db.contributor_scrapes) :
          /\ db.contributor_scrapes[c1].repo_scrape_id \in RsOf(db, 1)
          /\ db.contributor_scrapes[c2].repo_scrape_id \in RsOf(db, 2)
          /\ db.contributor_scrapes[c1].contributor_id
                = db.contributor_scrapes[c2].contributor_id

\* every row of the table before the step is the same row after it
RowsKept(before, after) ==
    /\ Len(before) <= Len(after)
    /\ \A i \in 1..Len(before) : after[i] = before[i]

\* C26: no step of a run or of its return, a step that ends the run Failed
\* included, removes or changes a row of any table: the rows written for the
\* repositories processed before a failure, and the rows of earlier runs, stay
\* as they were written; and a run that fails after Scrape::create leaves its
\* scrapes row in the store.
C26_FailedRunKeepsRows ==
    [][/\ RowsKept(db.scrapes, db'.scrapes)
       /\ RowsKept(db.repo_scrapes, db'.repo_scrapes)
       /\ RowsKept(db.contributor_scrapes, db'.contributor_scrapes)
       /\ RowsKept(db.orgs, db'.orgs)
       /\ RowsKept(db.repos, db'.repos)
       /\ RowsKept(db.contributors, db'.contributors)
       /\ (run'.pc = "failed" /\ run.scrape_id # 0)
             => run.scrape_id \in 1..Len(db'.scrapes)]_vars

\* a second run has failed and returned after writing a repo_scrapes row with
\* a contributor row, the first run's rows being in the store
C26_SecondRunFailedAfterRows ==
    /\ run.pc = "idle"
    /\ result = "Err"
    /\ Len(db.scrapes) = 2
    /\ RsOf(db, 1) # {}
    /\ \E r \in RsOf(db, 2) : CsOf(db, r) # {}

\* the number of repositories the upstream served for the page requested before
\* the one the run is at
PreviousPageCount == Len(get_org_repos_by_page(gh, run.org, run.page - 1))

\* C27: for each organization the run requests page 1, and page k + 1 exactly
\* when page k returned PER_PAGE repositories: a step that requests a page
\* other than the first follows a full page, a step that leaves the page loop
\* follows a page with fewer; and a run that was called ends, Succeeded or
\* Failed.
C27_PagingStopsAtShortPage ==
    /\ [][/\ (run.pc = "page_loop" /\ run'.pc = "repo_loop")
                => /\ run'.repos = get_org_repos_by_page(gh, run.org, run.page)
                   /\ run.page = 1 \/ PreviousPageCount = PER_PAGE
          /\ (run.pc = "page_loop" /\ run'.pc = "org_loop")
                => /\ run.page > 1
                   /\ PreviousPageCount < PER_PAGE
          /\ (run.pc = "repo_loop" /\ run'.pc = "page_loop")
                => run'.page = run.page + 1]_vars
    /\ (run.pc = "begin") ~> (run.pc \in {"done", "failed"})

\* the second page was requested after a first page of PER_PAGE repositories
\* and, holding fewer, ended the paging for the organization
C27_StoppedAfterSecondPage ==
    /\ run.pc = "org_loop"
    /\ run.org = ORG_A
    /\ run.page = 3
    /\ Len(get_org_repos_by_page(gh, ORG_A, 1)) = PER_PAGE
    /\ Len(get_org_repos_by_page(gh, ORG_A, 2)) = 1

\* C28: outside the Snapshot Picker a key step that is handle_key_event for
\* Enter leaves a drill-down request pending, one for Escape leaves a
\* back-navigation request pending, and neither sets should_quit.
C28_EnterDrillsEscapeGoesBack ==
    [][(lp = "events" /\ inputs' = inputs + 1 /\ ~InPicker)
       => /\ handle_key_event("Enter") => (drill_down_requested' /\ ~should_quit')
          /\ handle_key_event("Esc") => (navigate_back_requested' /\ ~should_quit')]_vars

\* C29: in every reachable state the rows the data holds (list or detail) are
\* in the order apply_sort gives them for the active sort field and order:
\* after startup, a view switch, a snapshot selection, a drill-down, a
\* back-navigation and a reload after a collection run.
C29_RowsAlwaysSorted ==
    data = apply_sort(data, sort_field, sort_order)

\* the dashboard has just started on a store whose organization observed
\* first has the fewer commits: no key was pressed and two rows are shown
C29_StartedOnTwoOrganizations ==
    /\ lp = "events"
    /\ inputs = 0
    /\ current_view = "Org"
    /\ Len(data.rows) = 2
    /\ data.rows[1].name = ORG_AA
    /\ db.orgs[1] = ORG_A

\* the four pending flags
RequestFlags ==
    <<pending_view_switch, start_scraping_requested, drill_down_requested,
      navigate_back_requested>>

\* C30: a step of the input step that changes a pending flag (a request) changes
\* exactly one of the four and leaves current view, data, selected index, sort
\* field and order, current_scrape, the snapshot list and the history as they
\* were; and the current view, current_scrape and the history change only in
\* the action-processing step (the collection run it awaits included).
C30_RequestsOnlyQueueFlags ==
    [][/\ (lp = "events" /\ RequestFlags' # RequestFlags)
             => /\ UNCHANGED <<current_view, data, selected_index, sort_field, sort_order,
                               current_scrape, scrapes, view_history, is_scraping,
                               should_quit>>
                /\ Cardinality({i \in 1..4 : RequestFlags'[i] # RequestFlags[i]}) = 1
       /\ <<current_view, current_scrape, view_history>>' #
             <<current_view, current_scrape, view_history>>
             => lp \in {"act", "in_scrape"}]_vars

\* a view switch is pending while the second row is selected under an
\* Ascending sort, and the view is still the Repository List
C30_RequestPendingViewKept ==
    /\ lp = "act"
    /\ pending_view_switch = Some("Contributors")
    /\ current_view = "Repo"
    /\ selected_index = 1
    /\ Len(data.rows) = 2

\* C31: in every reachable dashboard state the selected index is below the row
\* count when the data holds rows and 0 when it holds none (an empty list,
\* Loading or Error).
C31_SelectedIndexValid ==
    IF Len(data.rows) > 0 THEN selected_index < Len(data.rows)
    ELSE selected_index = 0

\* the second row of an Organization Detail is selected
C31_SecondDetailRowSelected ==
    /\ lp = "act"
    /\ current_view = "OrgDetail"
    /\ Len(data.rows) = 2
    /\ selected_index = 1
    /\ view_history # <<>>

\* the data variant of a view
VariantOf(view) ==
    CASE view = "Org" -> "Orgs"
      [] view = "Repo" -> "Repos"
      [] view = "Contributors" -> "Contributors"
      [] view = "OrgDetail" -> "OrgDetail"
      [] view = "RepoDetail" -> "RepoDetail"
      [] view = "ContributorDetail" -> "ContributorDetail"
      [] OTHER -> "Loading"

\* C32: in every reachable dashboard state the data is Loading, Error or the
\* variant of the current view; in the Snapshot Picker it is Loading or Error.
C32_DataVariantMatchesView ==
    data.tag \in {"Loading", "Error", VariantOf(current_view)}

\* the Snapshot Picker is open over a detail view left behind and holds Loading
C32_PickerHoldsLoading ==
    /\ lp = "render"
    /\ current_view = "ScrapeSelection"
    /\ data.tag = "Loading"
    /\ view_history # <<>>

\* the rows a fresh load of the data's variant and key from a snapshot returns
RowsOfSnapshot(d, scrape_id) ==
    CASE d.tag = "Orgs" -> Range(get_org_stats(db, scrape_id))
      [] d.tag = "Repos" -> Range(get_repo_stats(db, scrape_id))
      [] d.tag = "Contributors" -> Range(get_contributor_stats(db, scrape_id))
      [] d.tag = "OrgDetail" -> Range(get_org_detail(db, scrape_id, d.key[1]).repos)
      [] d.tag = "RepoDetail" ->
            Range(get_repo_detail(db, scrape_id, d.key[1], d.key[2]).contributors)
      [] d.tag = "ContributorDetail" ->
            Range(get_contributor_detail(db, scrape_id, d.key[1]).contributions)
      [] OTHER -> {}

\* C33: whenever the data holds loaded rows (a rollup list or a detail) they are
\* the rows of the snapshot current_scrape identifies, also after a collection
\* run completes while a detail view is current.
C33_RowsFromCurrentScrape ==
    (screen = "content" /\ lp = "events" /\ data.tag \notin {"Loading", "Error"}
        /\ current_scrape # None)
        => Range(data.rows) = RowsOfSnapshot(data, current_scrape[1])

\* the views outside a drill-down path
TopViews == {"Org", "Repo", "Contributors", "ScrapeSelection"}

\* C34: whenever the current view is the Organization List, the Repository List,
\* the Contributor List or the Snapshot Picker the history stack is empty; stated
\* of every step that leaves a detail view for one of these views.
C34_HistoryEmptyOutsideDetails ==
    [][(current_view \notin TopViews /\ current_view' \in TopViews)
          => view_history' = <<>>]_vars

\* C35: whenever handle_scraping_request returns (no request pending, the run
\* succeeded, the run failed, or the reload after the run failed) is_scraping and
\* start_scraping_requested are both false.
C35_FlagsClearOnReturn ==
    [][((lp = "in_scrape" /\ lp' # "in_scrape")
          \/ (lp = "act" /\ ~start_scraping_requested /\ lp' # "act"))
         => (~is_scraping' /\ ~start_scraping_requested')]_vars

\* the run succeeded and the reload of the snapshot list failed
C35_ReloadFailedAfterRun ==
    /\ lp = "render"
    /\ result = "Err"
    /\ inputs = 1
    /\ Len(db.scrapes) = 2
    /\ Len(scrapes) = 1
    /\ ~is_scraping
    /\ ~start_scraping_requested

\* the logins a commit or a pull request is attributed to
Authors == {AL, CY, BOT, ANONYMOUS}

\* C36: under the default configuration a completed run has skipped no
\* organization of the upstream listing, and the user ignore pattern drops no
\* commit or pull-request author.
C36_DefaultConfigExcludesNothing ==
    (cfg = AppConfig_default /\ run.pc = "done")
        => /\ \A i \in 1..Len(gh.orgs) : gh.orgs[i] \in Range(db.orgs)
           /\ \A login \in Authors : ~regex_find(cfg.ignored_user_patterns, login)

----------------------------------------------------------------------------
(* The dashboard of a user who never activates a row and never presses a
   list-view key: the Snapshot Picker is left with Escape or t only *)

CancelKeys == Keys \ {"Enter", "o", "r", "u"}

\* handle_events: one of the remaining keys is pressed
KeyEventCancel ==
    /\ lp = "events"
    /\ inputs < MaxInputs
    /\ \E key \in CancelKeys :
          /\ key = "S" => Len(db.scrapes) < MaxScrapes
          /\ handle_key_event(key)
    /\ lp' = "act"
    /\ inputs' = inputs + 1
    /\ UNCHANGED <<dbVars, result, screen, shown>>

NextCancel ==
    \/ Render
    \/ KeyEventCancel
    \/ NoEvent
    \/ RequestDrillDown
    \/ RequestNavigateBack
    \/ NoRequest
    \/ HandlePendingViewSwitch
    \/ HandleDrillDown
    \/ HandleNavigateBack
    \/ HandleScrapingRequest
    \/ RunBegin
    \/ NextOrg
    \/ NextPage
    \/ NextRepo
    \/ FetchPrs
    \/ SaveRepoScrape
    \/ SaveContributor
    \/ ScrapeReturn

SpecCancel == Init /\ [][NextCancel]_vars

\* C37: leaving the Snapshot Picker with Escape or t, without activating a row,
\* leaves current_scrape unchanged whatever row is highlighted; stated of the
\* step that processes the view switch those keys request.
C37_CancelKeepsScrape ==
    [][(lp = "act" /\ InPicker /\ ~InPicker')
         => current_scrape' = current_scrape]_vars

\* C38: whenever the Snapshot Picker is current and a switch to a list view is
\* pending, processing it with the store queries succeeding makes a list view
\* current, also when the snapshot list is empty.
C38_PickerCanBeLeft ==
    [][(lp = "act" /\ InPicker
          /\ pending_view_switch \in {Some("Org"), Some("Repo"), Some("Contributors")}
          /\ pending_view_switch' = None /\ result' = "Ok")
         => current_view' \in {"Org", "Repo", "Contributors"}]_vars

\* C39: a drill-down whose detail query fails leaves the history stack, the
\* current view, the data and the selected index as they were.
C39_FailedDrillDownChangesNothing ==
    [][(lp = "act" /\ drill_down_requested /\ ~drill_down_requested' /\ result' = "Err")
         => UNCHANGED <<view_history, current_view, data, selected_index>>]_vars

====
